---- MODULE Spec2Model ----
(***************************************************************************)
(* k-sriram/minesweeper: the mine-layout generator (default_randomizer),   *)
(* the rules engine (core.rs, struct Game) and the overlay engine          *)
(* (game/mod.rs, struct Game, with its Timer).                             *)
(*                                                                         *)
(* Grids are Vec<Vec<_>>: sequences of rows, so the cell (x, y) of the     *)
(* source, 0-indexed, is grid[y + 1][x + 1] here.                          *)
(***************************************************************************)
EXTENDS Integers, Sequences, FiniteSets, TLC

VARIABLES
    rules,            \* core.rs struct Game (game/mod.rs: field rules)
    ret,              \* what the last call returned
    call,             \* the last call and its arguments
    panicked,         \* a panic has unwound the last call
    board,            \* game/mod.rs Game.board
    settings,         \* game/mod.rs Game.settings (its difficulty)
    mines_remaining,  \* game/mod.rs Game.mines_remaining
    timer,            \* game/timer.rs Timer {start, excess}
    rnd               \* the state of what drives the engines: the locals of a run
                      \* of default_randomizer, of the caller that drives a Timer
                      \* directly, or the fields of the terminal UI (struct TUI)

vars == <<rules, ret, call, panicked, board, settings, mines_remaining, timer, rnd>>

----------------------------------------------------------------------------
(* Bounds *)

MaxW == 3
MaxH == 2
MaxArea == 6
MaxMines == 2
MaxElapsed == 1
MaxTime == 4

Min(a, b) == IF a < b THEN a ELSE b
Max(a, b) == IF a > b THEN a ELSE b

\* the configurations new_with accepts (core.rs:71-76), within the bounds
ValidConfigs ==
    {c \in (1..MaxW) \X (1..MaxH) \X (1..MaxMines) :
        c[1] * c[2] <= MaxArea /\ c[3] <= c[1] * c[2] - 1}

\* every argument triple a caller can hand to reset, within the bounds
AnyConfigs ==
    {c \in (0..MaxW) \X (0..MaxH) \X (0..(MaxMines + 1)) : c[1] * c[2] <= MaxArea}

\* coordinates a caller can pass, in bounds and out of bounds
Coords == (0..Max(MaxW, MaxH)) \X (0..Max(MaxW, MaxH))

\* coordinates an intent can carry: every cell of every board of the overlay,
\* and a column and a row outside all of them
GameCoords == (0..MaxW) \X (0..MaxH)

----------------------------------------------------------------------------
(* core.rs: values *)

Cell_Hidden == [tag |-> "Hidden", n |-> 0]
Cell_Mine == [tag |-> "Mine", n |-> 0]
Cell_Clear(n) == [tag |-> "Clear", n |-> n]

Ok(s, c) == [ok |-> TRUE, state |-> s, cell |-> c, err |-> "none"]
Err(e) == [ok |-> FALSE, state |-> "none", cell |-> Cell_Hidden, err |-> e]
NoRet == [ok |-> FALSE, state |-> "none", cell |-> Cell_Hidden, err |-> "none"]

\* vec![vec![v; width]; height]
Grid(width, height, v) == [j \in 1..height |-> [i \in 1..width |-> v]]

GridSet(g, x, y, v) == [g EXCEPT ![y + 1][x + 1] = v]

CountTrue(g) ==
    Cardinality({p \in (1..Len(g)) \X (1..MaxW + MaxH + 2) :
                    p[2] <= Len(g[p[1]]) /\ g[p[1]][p[2]]})

----------------------------------------------------------------------------
(* core.rs: default_randomizer *)

\* fault variant of ScanPlace: the scan does not skip cells already mined
RECURSIVE ScanPlace_noskip(_, _, _, _, _, _)
ScanPlace_noskip(m, width, area, r, j, i) ==
    IF j >= area THEN [found |-> FALSE, mines |-> m]
    ELSE IF i = r
         THEN [found |-> TRUE, mines |-> GridSet(m, j % width, j \div width, TRUE)]
         ELSE ScanPlace_noskip(m, width, area, r, j + 1, i + 1)

\* the inner for loop (core.rs:222-234): walk j over 0..area, skip mined
\* cells, mine the r-th cell that is not mined
RECURSIVE ScanPlace(_, _, _, _, _, _)
ScanPlace(m, width, area, r, j, i) ==
    IF j >= area THEN [found |-> FALSE, mines |-> m]
    ELSE IF m[(j \div width) + 1][(j % width) + 1]
         THEN ScanPlace(m, width, area, r, j + 1, i)
         ELSE IF i = r
              THEN [found |-> TRUE, mines |-> GridSet(m, j % width, j \div width, TRUE)]
              ELSE ScanPlace(m, width, area, r, j + 1, i + 1)

\* the while loop (core.rs:220-235) from one loop state: every grid it can
\* end with, over all draws r; a draw that finds no cell repeats the loop
\* in the same state and so adds no grid
RECURSIVE PlaceAll(_, _, _, _, _)
PlaceAll(m, mines_left, spaces, width, area) ==
    IF mines_left = 0 THEN {m}
    ELSE UNION {IF s.found
                THEN PlaceAll(s.mines, mines_left - 1, spaces, width, area)
                ELSE {}
                : s \in {ScanPlace(m, width, area, r, 0, 0) :
                            r \in 0..(spaces + mines_left - 1)}}

\* area - num_mines - 1 is below zero (core.rs:216): a debug build panics on
\* the subtraction; a release build wraps, and then spaces + mines_left
\* wraps back to (free cells), which reaches 0 while mines_left > 0, where
\* gen_range(0..0) panics (core.rs:221). Either build panics before the
\* function returns.
RandomizerPanics(width, height, num_mines) == width * height - num_mines - 1 < 0

\* fault variant of default_randomizer: the scratch mark on the first cell is
\* not cleared before returning
default_randomizer_keepfirst(width, height, num_mines, firstx, firsty) ==
    IF RandomizerPanics(width, height, num_mines)
    THEN {[panic |-> TRUE, mines |-> <<>>]}
    ELSE {[panic |-> FALSE, mines |-> placed] :
            placed \in UNION {PlaceAll(m0, num_mines, width * height - num_mines - 1,
                                       width, width * height) :
                                 m0 \in {GridSet(Grid(width, height, FALSE),
                                                 firstx, firsty, TRUE)}}}

\* every value default_randomizer can return
default_randomizer(width, height, num_mines, firstx, firsty) ==
    IF RandomizerPanics(width, height, num_mines)
    THEN {[panic |-> TRUE, mines |-> <<>>]}
    ELSE {[panic |-> FALSE, mines |-> GridSet(placed, firstx, firsty, FALSE)] :
            placed \in UNION {PlaceAll(m0, num_mines, width * height - num_mines - 1,
                                       width, width * height) :
                                 m0 \in {GridSet(Grid(width, height, FALSE),
                                                 firstx, firsty, TRUE)}}}

----------------------------------------------------------------------------
(* core.rs: impl Game *)

new_with(width, height, num_mines) ==
    [state |-> "New", width |-> width, height |-> height, num_mines |-> num_mines,
     clear_remaining |-> 0, mines |-> <<>>, opened |-> <<>>, neighbours |-> <<>>]

\* Game::new hands (height, width) to new_with in place of (width, height)
new(width, height, num_mines) == new_with(height, width, num_mines)

\* fault variant of InvalidConfig: no upper limit on num_mines
InvalidConfig_nomax(width, height, num_mines) ==
    \/ width < 1 \/ height < 1
    \/ num_mines < 1

\* new_with panics on these (core.rs:71-76)
InvalidConfig(width, height, num_mines) ==
    \/ width < 1 \/ height < 1
    \/ num_mines < 1 \/ num_mines > width * height - 1

clear(g) ==
    [g EXCEPT !.state = "New", !.mines = <<>>, !.opened = <<>>, !.neighbours = <<>>]

reset(g, width, height, num_mines) ==
    clear([g EXCEPT !.height = height, !.width = width, !.num_mines = num_mines])

\* fault variant of AddWindow: the window stops one row and one column short
AddWindow_narrow(nb, width, height, x, y) ==
    [j \in 1..height |-> [i \in 1..width |->
        IF /\ j - 1 >= Max(1, y) - 1 /\ j - 1 < Min(height, y + 1)
           /\ i - 1 >= Max(1, x) - 1 /\ i - 1 < Min(width, x + 1)
        THEN nb[j][i] + 1 ELSE nb[j][i]]]

\* the += 1 over the window of one mine at (x, y) (core.rs:195-199); the
\* window holds (x, y) itself
AddWindow(nb, width, height, x, y) ==
    [j \in 1..height |-> [i \in 1..width |->
        IF /\ j - 1 >= Max(1, y) - 1 /\ j - 1 < Min(height, y + 2)
           /\ i - 1 >= Max(1, x) - 1 /\ i - 1 < Min(width, x + 2)
        THEN nb[j][i] + 1 ELSE nb[j][i]]]

RECURSIVE NeighbourLoop(_, _, _, _, _)
NeighbourLoop(nb, m, width, height, k) ==
    IF k >= width * height THEN nb
    ELSE IF m[(k \div width) + 1][(k % width) + 1]
         THEN NeighbourLoop(AddWindow(nb, width, height, k % width, k \div width),
                            m, width, height, k + 1)
         ELSE NeighbourLoop(nb, m, width, height, k + 1)

\* fault variant of calculate_neighbours: no mine is counted
calculate_neighbours_zero(g) ==
    [g EXCEPT !.neighbours = Grid(g.width, g.height, 0)]

calculate_neighbours(g) ==
    [g EXCEPT !.neighbours = NeighbourLoop(Grid(g.width, g.height, 0), g.mines,
                                           g.width, g.height, 0)]

\* fault variant of generate_board: clear_remaining counts every cell
generate_board_allcells(g, grid) ==
    LET g1 == [g EXCEPT !.mines = grid,
                        !.opened = Grid(g.width, g.height, FALSE)]
        g2 == calculate_neighbours(g1)
    IN [g2 EXCEPT !.clear_remaining = g.width * g.height]

\* grid is the value (self.randomizer)(...) returned
generate_board(g, grid) ==
    LET g1 == [g EXCEPT !.mines = grid,
                        !.opened = Grid(g.width, g.height, FALSE)]
        g2 == calculate_neighbours(g1)
    IN [g2 EXCEPT !.clear_remaining = g.width * g.height - g.num_mines]

\* the randomizer is not called
NoDraw == [panic |-> FALSE, mines |-> <<>>]

\* the values the randomizer can return to an open(x, y) on g; one
\* placeholder when that open does not call it
Draws(g, x, y) ==
    IF g.state = "New" /\ x < g.width /\ y < g.height
    THEN default_randomizer(g.width, g.height, g.num_mines, x, y)
    ELSE {NoDraw}

\* fault variant of open_playing: reaching clear_remaining = 0 does not win
open_playing_nowin(g, x, y) ==
    IF g.opened[y + 1][x + 1]
    THEN [g |-> g, ret |-> Err("AlreadyOpen"), panic |-> FALSE]
    ELSE LET g1 == [g EXCEPT !.opened = GridSet(g.opened, x, y, TRUE)]
         IN IF g1.mines[y + 1][x + 1]
            THEN [g |-> [g1 EXCEPT !.state = "Lost"],
                  ret |-> Ok("Lost", Cell_Mine), panic |-> FALSE]
            ELSE LET g2 == [g1 EXCEPT !.clear_remaining = g1.clear_remaining - 1]
                 IN [g |-> g2,
                     ret |-> Ok(g2.state, Cell_Clear(g2.neighbours[y + 1][x + 1])),
                     panic |-> FALSE]

\* fault variant of open_playing: opening a mine does not end the game
open_playing_nolose(g, x, y) ==
    IF g.opened[y + 1][x + 1]
    THEN [g |-> g, ret |-> Err("AlreadyOpen"), panic |-> FALSE]
    ELSE LET g1 == [g EXCEPT !.opened = GridSet(g.opened, x, y, TRUE)]
         IN IF g1.mines[y + 1][x + 1]
            THEN [g |-> g1, ret |-> Ok(g1.state, Cell_Mine), panic |-> FALSE]
            ELSE LET g2 == [g1 EXCEPT !.clear_remaining = g1.clear_remaining - 1]
                     g3 == IF g2.clear_remaining = 0
                           THEN [g2 EXCEPT !.state = "Won"] ELSE g2
                 IN [g |-> g3,
                     ret |-> Ok(g3.state, Cell_Clear(g3.neighbours[y + 1][x + 1])),
                     panic |-> FALSE]

\* fault variant of open_playing: an opened cell is opened again
open_playing_reopen(g, x, y) ==
    LET g1 == [g EXCEPT !.opened = GridSet(g.opened, x, y, TRUE)]
    IN IF g1.mines[y + 1][x + 1]
       THEN [g |-> [g1 EXCEPT !.state = "Lost"],
             ret |-> Ok("Lost", Cell_Mine), panic |-> FALSE]
       ELSE LET g2 == [g1 EXCEPT !.clear_remaining = g1.clear_remaining - 1]
                g3 == IF g2.clear_remaining = 0
                      THEN [g2 EXCEPT !.state = "Won"] ELSE g2
            IN [g |-> g3,
                ret |-> Ok(g3.state, Cell_Clear(g3.neighbours[y + 1][x + 1])),
                panic |-> FALSE]

\* fault variant of open_playing: the opening forgets the cells opened before
open_playing_forgets(g, x, y) ==
    IF g.opened[y + 1][x + 1]
    THEN [g |-> g, ret |-> Err("AlreadyOpen"), panic |-> FALSE]
    ELSE LET g1 == [g EXCEPT !.opened = GridSet(Grid(g.width, g.height, FALSE), x, y, TRUE)]
         IN IF g1.mines[y + 1][x + 1]
            THEN [g |-> [g1 EXCEPT !.state = "Lost"],
                  ret |-> Ok("Lost", Cell_Mine), panic |-> FALSE]
            ELSE LET g2 == [g1 EXCEPT !.clear_remaining = g1.clear_remaining - 1]
                     g3 == IF g2.clear_remaining = 0
                           THEN [g2 EXCEPT !.state = "Won"] ELSE g2
                 IN [g |-> g3,
                     ret |-> Ok(g3.state, Cell_Clear(g3.neighbours[y + 1][x + 1])),
                     panic |-> FALSE]

\* the Playing arm of Game::open (core.rs:154-176)
open_playing(g, x, y) ==
    IF g.opened[y + 1][x + 1]
    THEN [g |-> g, ret |-> Err("AlreadyOpen"), panic |-> FALSE]
    ELSE LET g1 == [g EXCEPT !.opened = GridSet(g.opened, x, y, TRUE)]
         IN IF g1.mines[y + 1][x + 1]
            THEN [g |-> [g1 EXCEPT !.state = "Lost"],
                  ret |-> Ok("Lost", Cell_Mine), panic |-> FALSE]
            ELSE LET g2 == [g1 EXCEPT !.clear_remaining = g1.clear_remaining - 1]
                     g3 == IF g2.clear_remaining = 0
                           THEN [g2 EXCEPT !.state = "Won"] ELSE g2
                 IN [g |-> g3,
                     ret |-> Ok(g3.state, Cell_Clear(g3.neighbours[y + 1][x + 1])),
                     panic |-> FALSE]

\* fault variant of open: only Won is terminal, Lost takes the Playing arm
open_lost_continues(g, x, y, d) ==
    IF x >= g.width \/ y >= g.height
    THEN [g |-> g, ret |-> Err("OutOfBounds"), panic |-> FALSE]
    ELSE CASE g.state = "New" ->
                 IF d.panic
                 THEN [g |-> [g EXCEPT !.state = "Playing"], ret |-> NoRet, panic |-> TRUE]
                 ELSE open_playing(generate_board([g EXCEPT !.state = "Playing"], d.mines),
                                   x, y)
           [] g.state \in {"Playing", "Lost"} -> open_playing(g, x, y)
           [] OTHER -> [g |-> g, ret |-> Err("GameOver"), panic |-> FALSE]

\* fault variant of open: state New is handled before the bounds check
open_late_bounds(g, x, y, d) ==
    IF x >= g.width \/ y >= g.height
    THEN [g |-> IF g.state = "New" THEN [g EXCEPT !.state = "Playing"] ELSE g,
          ret |-> Err("OutOfBounds"), panic |-> FALSE]
    ELSE CASE g.state = "New" ->
                 IF d.panic
                 THEN [g |-> [g EXCEPT !.state = "Playing"], ret |-> NoRet, panic |-> TRUE]
                 ELSE open_playing(generate_board([g EXCEPT !.state = "Playing"], d.mines),
                                   x, y)
           [] g.state = "Playing" -> open_playing(g, x, y)
           [] OTHER -> [g |-> g, ret |-> Err("GameOver"), panic |-> FALSE]

\* Game::open; d is the randomizer's outcome should this call generate.
\* In state New the call sets Playing, generates and re-enters itself, which
\* then takes the Playing arm.
open(g, x, y, d) ==
    IF x >= g.width \/ y >= g.height
    THEN [g |-> g, ret |-> Err("OutOfBounds"), panic |-> FALSE]
    ELSE CASE g.state = "New" ->
                 IF d.panic
                 THEN [g |-> [g EXCEPT !.state = "Playing"], ret |-> NoRet, panic |-> TRUE]
                 ELSE open_playing(generate_board([g EXCEPT !.state = "Playing"], d.mines),
                                   x, y)
           [] g.state = "Playing" -> open_playing(g, x, y)
           [] OTHER -> [g |-> g, ret |-> Err("GameOver"), panic |-> FALSE]

\* a read of grid[y][x] that is in range
InGrid(grid, x, y) == y < Len(grid) /\ x < Len(grid[y + 1])

\* fault variant of get_cell: a finished game still hides its unopened cells
get_cell_hides(g, x, y) ==
    CASE g.state = "New" -> Cell_Hidden
      [] ~g.opened[y + 1][x + 1] -> Cell_Hidden
      [] OTHER -> IF g.mines[y + 1][x + 1] THEN Cell_Mine
                  ELSE Cell_Clear(g.neighbours[y + 1][x + 1])

get_cell(g, x, y) ==
    CASE g.state = "New" -> Cell_Hidden
      [] g.state = "Playing" /\ ~g.opened[y + 1][x + 1] -> Cell_Hidden
      [] OTHER -> IF g.mines[y + 1][x + 1] THEN Cell_Mine
                  ELSE Cell_Clear(g.neighbours[y + 1][x + 1])

\* get_cell indexes a grid out of range and panics
get_cell_panics(g, x, y) ==
    CASE g.state = "New" -> FALSE
      [] g.state = "Playing" /\ ~InGrid(g.opened, x, y) -> TRUE
      [] OTHER -> ~InGrid(g.mines, x, y)

----------------------------------------------------------------------------
(* game/timer.rs: Timer. An Instant is held as its distance from the       *)
(* present, so Instant::now() is 0 and an instant k ticks old is -k; the   *)
(* passing of time moves the stored instants (action Tick). Timer only     *)
(* takes differences of instants (Instant::elapsed).                       *)

now == 0

\* Option<Instant>
None == <<>>
Some(v) == <<v>>

Timer_new == [start |-> None, excess |-> 0]

Timer_resume(t, n) == [t EXCEPT !.start = Some(n)]

Timer_start(t, n) == Timer_resume([t EXCEPT !.excess = 0], n)

\* fault variant of Timer_stop: start is not set to None
Timer_stop_keepstart(t, n) ==
    IF t.start # None
    THEN [t EXCEPT !.excess = t.excess + (n - t.start[1])]
    ELSE t

Timer_stop(t, n) ==
    IF t.start # None
    THEN [start |-> None, excess |-> t.excess + (n - t.start[1])]
    ELSE t

Timer_reset(t) == [t EXCEPT !.excess = 0, !.start = None]

Timer_time(t, n) == (IF t.start # None THEN n - t.start[1] ELSE 0) + t.excess

is_running(t) == t.start # None

----------------------------------------------------------------------------
(* game/mod.rs: values *)

Hidden == [tag |-> "Hidden", n |-> 0]
Flag == [tag |-> "Flag", n |-> 0]
Mine == [tag |-> "Mine", n |-> 0]
FalseFlag == [tag |-> "FalseFlag", n |-> 0]
TrippedMine == [tag |-> "TrippedMine", n |-> 0]
Open(n) == [tag |-> "Open", n |-> n]

\* impl From<rules::Cell> for Cell
into(c) ==
    CASE c.tag = "Hidden" -> Hidden
      [] c.tag = "Mine" -> Mine
      [] c.tag = "Clear" -> Open(c.n)

\* rules::Cell::is_clear
is_clear(c) == c.tag = "Clear"

GOk == [ok |-> TRUE, err |-> "none"]
GErr(msg) == [ok |-> FALSE, err |-> msg]
NoGRet == [ok |-> FALSE, err |-> "none"]

\* the payload of the panic at game/mod.rs:126, which names the error the
\* rules engine answered
Unreachable(err) == [ok |-> FALSE, err |-> err]

\* Difficulty::Custom(CustomBoard {width, height, mines}); CustomBoard::new
\* accepts what new_with accepts
Difficulties == {[width |-> c[1], height |-> c[2], mines |-> c[3]] : c \in ValidConfigs}

AllSettings == {[difficulty |-> df] : df \in Difficulties}

\* what one operation of the overlay leaves: the game, the returned value,
\* and whether it panicked instead of returning
Res(g, r, p) == [g |-> g, ret |-> r, panic |-> p]

----------------------------------------------------------------------------
(* game/mod.rs: impl Game *)

Game_width(g) == g.settings.difficulty.width
Game_height(g) == g.settings.difficulty.height
Game_mines(g) == g.settings.difficulty.mines
Game_state(g) == g.rules.state

\* besides the fields of the struct, opens counts the calls of
\* self.rules.open made by the intent being served
Game_new(st) ==
    [rules |-> new(st.difficulty.width, st.difficulty.height, st.difficulty.mines),
     timer |-> Timer_new,
     board |-> Grid(st.difficulty.width, st.difficulty.height, Hidden),
     settings |-> st,
     mines_remaining |-> st.difficulty.mines,
     opens |-> 0]

valid_coord(g, x, y) == x < Game_width(g) /\ y < Game_height(g)

\* the list Game::neighbours builds: rows y-1..y+1, columns x-1..x+1,
\* clipped to the board, without (x, y)
neighbours(g, x, y) ==
    LET ylo == Max(y - 1, 0)
        yhi == Min(Game_height(g), y + 2)
        xlo == Max(x - 1, 0)
        xhi == Min(Game_width(g), x + 2)
        ww == Max(xhi - xlo, 0)
        wh == Max(yhi - ylo, 0)
        all == [k \in 1..(ww * wh) |-> <<xlo + ((k - 1) % ww), ylo + ((k - 1) \div ww)>>]
    IN SelectSeq(all, LAMBDA c : c # <<x, y>>)

\* query_board panics: called outside Won/Lost, or get_cell indexes a grid
\* of the rules engine out of range
query_board_panics(g) ==
    \/ ~(Game_state(g) \in {"Won", "Lost"})
    \/ \E j \in 1..Len(g.board) : \E i \in 1..Len(g.board[j]) :
          /\ g.board[j][i] \in {Hidden, Flag}
          /\ get_cell_panics(g.rules, i - 1, j - 1)

\* Game::query_board, the Won | Lost arm
query_board(g) ==
    [g EXCEPT !.board =
        [j \in 1..Len(g.board) |-> [i \in 1..Len(g.board[j]) |->
            IF g.board[j][i] = Hidden THEN into(get_cell(g.rules, i - 1, j - 1))
            ELSE IF g.board[j][i] = Flag
                 THEN IF is_clear(get_cell(g.rules, i - 1, j - 1)) THEN FalseFlag ELSE Mine
                 ELSE g.board[j][i]]]]

\* fault variant of open_game_over: the opened mine is not marked
open_game_over_nomark(g, x, y, cell, n) ==
    IF query_board_panics(g)
    THEN Res(g, NoGRet, TRUE)
    ELSE Res([query_board(g) EXCEPT !.timer = Timer_stop(g.timer, n)], GOk, FALSE)

\* game/mod.rs:138-144, the arm of a result that is not Playing
open_game_over(g, x, y, cell, n) ==
    IF query_board_panics(IF cell = Cell_Mine
                          THEN [g EXCEPT !.board = GridSet(g.board, x, y, TrippedMine)]
                          ELSE g)
    THEN Res(g, NoGRet, TRUE)
    ELSE Res([query_board(IF cell = Cell_Mine
                          THEN [g EXCEPT !.board = GridSet(g.board, x, y, TrippedMine)]
                          ELSE g)
                 EXCEPT !.timer = Timer_stop(g.timer, n)],
             GOk, FALSE)

\* game/mod.rs:112-114
open_start_timer(g, n) ==
    IF Game_state(g) = "New" THEN [g EXCEPT !.timer = Timer_start(g.timer, n)] ELSE g

\* the call site of open_neighbors at game/mod.rs:135 drops its Result
drop_result(r) == IF r.panic THEN r ELSE Res(r.g, GOk, FALSE)

RECURSIVE Game_open(_, _, _, _, _)
RECURSIVE open_checked(_, _, _, _, _)
RECURSIVE open_result(_, _, _, _, _, _)
RECURSIVE open_neighbors(_, _, _, _, _)
RECURSIVE open_neighbors_loop(_, _, _, _, _)
RECURSIVE open_neighbors_next(_, _, _, _, _)

\* Game::open; d is the randomizer's outcome should the rules engine generate
Game_open(g, x, y, d, n) ==
    IF ~valid_coord(g, x, y)
    THEN Res(g, GErr("invalid coordinate"), FALSE)
    ELSE open_checked(open_start_timer(g, n), x, y, d, n)

\* fault variant of open_checked: the test for Lost and Won is missing
open_checked_nogameover(g, x, y, d, n) ==
    CASE g.board[y + 1][x + 1] = Flag -> Res(g, GErr("Cell if flagged"), FALSE)
      [] g.board[y + 1][x + 1].tag = "Open" -> Res(g, GErr("Cell is already open"), FALSE)
      [] g.board[y + 1][x + 1] = Hidden ->
            open_result([g EXCEPT !.opens = @ + 1], x, y, open(g.rules, x, y, d), d, n)
      [] OTHER -> Res(g, NoGRet, TRUE)

\* fault variant of open_checked: a cell that is already open is probed again
open_checked_reopens(g, x, y, d, n) ==
    IF Game_state(g) = "Lost" \/ Game_state(g) = "Won"
    THEN Res(g, GErr("Game is over"), FALSE)
    ELSE CASE g.board[y + 1][x + 1] = Flag -> Res(g, GErr("Cell if flagged"), FALSE)
           [] g.board[y + 1][x + 1] = Hidden \/ g.board[y + 1][x + 1].tag = "Open" ->
                 open_result([g EXCEPT !.opens = @ + 1], x, y,
                             open(g.rules, x, y, d), d, n)
           [] OTHER -> Res(g, NoGRet, TRUE)

\* game/mod.rs:116-152
open_checked(g, x, y, d, n) ==
    IF Game_state(g) = "Lost" \/ Game_state(g) = "Won"
    THEN Res(g, GErr("Game is over"), FALSE)
    ELSE CASE g.board[y + 1][x + 1] = Flag -> Res(g, GErr("Cell if flagged"), FALSE)
           [] g.board[y + 1][x + 1].tag = "Open" -> Res(g, GErr("Cell is already open"), FALSE)
           [] g.board[y + 1][x + 1] = Hidden ->
                 open_result([g EXCEPT !.opens = @ + 1], x, y,
                             open(g.rules, x, y, d), d, n)
           [] OTHER -> Res(g, NoGRet, TRUE)

\* fault variant of open_result: opening a Clear(0) cell opens no neighbour
open_result_nocascade(g, x, y, o, d, n) ==
    IF o.panic THEN Res([g EXCEPT !.rules = o.g], NoGRet, TRUE)
    ELSE IF ~o.ret.ok THEN Res(g, Unreachable(o.ret.err), TRUE)
    ELSE IF o.ret.state = "Playing"
         THEN Res([g EXCEPT !.rules = o.g,
                            !.board = GridSet(g.board, x, y, into(o.ret.cell))],
                  GOk, FALSE)
         ELSE open_game_over([g EXCEPT !.rules = o.g], x, y, o.ret.cell, n)

\* game/mod.rs:124-147; o is what self.rules.open(x, y) did
open_result(g, x, y, o, d, n) ==
    IF o.panic THEN Res([g EXCEPT !.rules = o.g], NoGRet, TRUE)
    ELSE IF ~o.ret.ok THEN Res(g, Unreachable(o.ret.err), TRUE)
    ELSE IF o.ret.state = "Playing"
         THEN IF o.ret.cell = Cell_Clear(0)
              THEN drop_result(open_neighbors(
                       [g EXCEPT !.rules = o.g,
                                 !.board = GridSet(g.board, x, y, into(o.ret.cell))],
                       x, y, d, n))
              ELSE Res([g EXCEPT !.rules = o.g,
                                 !.board = GridSet(g.board, x, y, into(o.ret.cell))],
                       GOk, FALSE)
         ELSE open_game_over([g EXCEPT !.rules = o.g], x, y, o.ret.cell, n)

\* Game::open_neighbors
open_neighbors(g, x, y, d, n) == open_neighbors_loop(g, neighbours(g, x, y), 1, d, n)

\* the k-th iteration of the for loop of open_neighbors, and those after it
open_neighbors_loop(g, nbs, k, d, n) ==
    IF k > Len(nbs) THEN Res(g, GOk, FALSE)
    ELSE IF g.board[nbs[k][2] + 1][nbs[k][1] + 1] = Hidden
         THEN open_neighbors_next(Game_open(g, nbs[k][1], nbs[k][2], d, n), nbs, k, d, n)
         ELSE open_neighbors_next(Res(g, GOk, FALSE), nbs, k, d, n)

\* game/mod.rs:158-162: the ? on the result r of self.open, then the
\* TrippedMine test
open_neighbors_next(r, nbs, k, d, n) ==
    IF r.panic \/ ~r.ret.ok THEN r
    ELSE IF r.g.board[nbs[k][2] + 1][nbs[k][1] + 1] = TrippedMine
         THEN Res(r.g, GErr("Auto-tripped on mine."), FALSE)
         ELSE open_neighbors_loop(r.g, nbs, k + 1, d, n)

\* a value of mines_remaining that stands for a wrapped usize
usize_wrapped(v) == v < 0

\* fault variant of Game_flag: removing a flag does not give the mine back
Game_flag_noinc(g, x, y, overflow_checks) ==
    IF ~valid_coord(g, x, y) THEN Res(g, GErr("invalid coordinate"), FALSE)
    ELSE CASE g.board[y + 1][x + 1] = Hidden ->
                 IF g.mines_remaining = 0 /\ overflow_checks
                 THEN Res([g EXCEPT !.board = GridSet(g.board, x, y, Flag)], NoGRet, TRUE)
                 ELSE Res([g EXCEPT !.board = GridSet(g.board, x, y, Flag),
                                    !.mines_remaining = @ - 1], GOk, FALSE)
           [] g.board[y + 1][x + 1] = Flag ->
                 Res([g EXCEPT !.board = GridSet(g.board, x, y, Hidden)], GOk, FALSE)
           [] OTHER -> Res(g, GErr("Cell not hidden"), FALSE)

\* Game::flag. mines_remaining is a usize: 0 - 1 panics in a build with
\* overflow checks and wraps to usize::MAX without them; a wrapped value
\* usize::MAX - k is held here as -(k + 1), on which the wrapping += 1 and
\* -= 1 are the integer ones
Game_flag(g, x, y, overflow_checks) ==
    IF ~valid_coord(g, x, y) THEN Res(g, GErr("invalid coordinate"), FALSE)
    ELSE CASE g.board[y + 1][x + 1] = Hidden ->
                 IF g.mines_remaining = 0 /\ overflow_checks
                 THEN Res([g EXCEPT !.board = GridSet(g.board, x, y, Flag)], NoGRet, TRUE)
                 ELSE Res([g EXCEPT !.board = GridSet(g.board, x, y, Flag),
                                    !.mines_remaining = @ - 1], GOk, FALSE)
           [] g.board[y + 1][x + 1] = Flag ->
                 Res([g EXCEPT !.board = GridSet(g.board, x, y, Hidden),
                               !.mines_remaining = @ + 1], GOk, FALSE)
           [] OTHER -> Res(g, GErr("Cell not hidden"), FALSE)

\* game/mod.rs:200-205
neighbouring_flags(g, x, y) ==
    Len(SelectSeq(neighbours(g, x, y), LAMBDA c : g.board[c[2] + 1][c[1] + 1] = Flag))

\* fault variant of Game_chord: the number of Flag neighbours is not compared
Game_chord_nocount(g, x, y, d, n) ==
    IF ~valid_coord(g, x, y) THEN Res(g, GErr("invalid coordinate"), FALSE)
    ELSE CASE g.board[y + 1][x + 1] = Flag -> Res(g, GErr("Cell is flagged"), FALSE)
           [] g.board[y + 1][x + 1] = Hidden -> Res(g, GErr("Cell is hidden"), FALSE)
           [] g.board[y + 1][x + 1].tag = "Open" ->
                 IF Game_state(g) # "Playing" THEN Res(g, GErr("Game is over"), FALSE)
                 ELSE IF g.board[y + 1][x + 1].n = 0
                      THEN Res(g, GErr("0s get auto-chorded."), FALSE)
                      ELSE open_neighbors(g, x, y, d, n)
           [] OTHER -> Res(g, GErr("Game is over"), FALSE)

\* Game::chord
Game_chord(g, x, y, d, n) ==
    IF ~valid_coord(g, x, y) THEN Res(g, GErr("invalid coordinate"), FALSE)
    ELSE CASE g.board[y + 1][x + 1] = Flag -> Res(g, GErr("Cell is flagged"), FALSE)
           [] g.board[y + 1][x + 1] = Hidden -> Res(g, GErr("Cell is hidden"), FALSE)
           [] g.board[y + 1][x + 1].tag = "Open" ->
                 IF Game_state(g) # "Playing" THEN Res(g, GErr("Game is over"), FALSE)
                 ELSE IF g.board[y + 1][x + 1].n = 0
                      THEN Res(g, GErr("0s get auto-chorded."), FALSE)
                      ELSE IF neighbouring_flags(g, x, y) = g.board[y + 1][x + 1].n
                           THEN open_neighbors(g, x, y, d, n)
                           ELSE Res(g, GErr("Can't chord this cell. Incorrect number of flags."),
                                    FALSE)
           [] OTHER -> Res(g, GErr("Game is over"), FALSE)

\* Game::open_or_chord reads self.board[y][x] first
open_or_chord(g, x, y, d, n) ==
    IF ~InGrid(g.board, x, y) THEN Res(g, NoGRet, TRUE)
    ELSE IF g.board[y + 1][x + 1].tag = "Open"
         THEN Game_chord(g, x, y, d, n)
         ELSE Game_open(g, x, y, d, n)

\* fault variant of Game_reset: the board is not replaced
Game_reset_keepboard(g) ==
    Res([g EXCEPT !.timer = Timer_reset(g.timer),
                  !.rules = clear(g.rules),
                  !.mines_remaining = Game_mines(g)],
        GOk, FALSE)

\* fault variant of Game_reset: the rules engine is not cleared
Game_reset_keeprules(g) ==
    Res([g EXCEPT !.timer = Timer_reset(g.timer),
                  !.board = Grid(Game_width(g), Game_height(g), Hidden),
                  !.mines_remaining = Game_mines(g)],
        GOk, FALSE)

\* Game::reset
Game_reset(g) ==
    Res([g EXCEPT !.timer = Timer_reset(g.timer),
                  !.board = Grid(Game_width(g), Game_height(g), Hidden),
                  !.rules = clear(g.rules),
                  !.mines_remaining = Game_mines(g)],
        GOk, FALSE)

\* fault variant of change_settings: every ChangeSettings resets the game
change_settings_always(g, st) ==
    Game_reset([g EXCEPT !.settings = st,
                         !.rules = reset(g.rules, st.difficulty.width,
                                         st.difficulty.height, st.difficulty.mines)])

change_settings(g, st) ==
    IF g.settings.difficulty # st.difficulty
    THEN Game_reset([g EXCEPT !.settings = st,
                              !.rules = reset(g.rules, st.difficulty.width,
                                              st.difficulty.height, st.difficulty.mines)])
    ELSE Res([g EXCEPT !.settings = st], GOk, FALSE)

\* enum Action
Intent(op, x, y) == [op |-> op, x |-> x, y |-> y, settings |-> [difficulty |-> <<>>]]
IntentSettings(st) == [op |-> "ChangeSettings", x |-> 0, y |-> 0, settings |-> st]

\* Game::action
Game_action(g, a, d, overflow_checks, n) ==
    CASE a.op = "ChangeSettings" -> change_settings(g, a.settings)
      [] a.op = "Reset" -> Game_reset(g)
      [] a.op = "Open" -> Game_open(g, a.x, a.y, d, n)
      [] a.op = "Flag" -> Game_flag(g, a.x, a.y, overflow_checks)
      [] a.op = "Quit" -> Res(g, GErr("Quit should be processed by the engine."), FALSE)
      [] a.op = "Chord" -> Game_chord(g, a.x, a.y, d, n)
      [] a.op = "OpenOrChord" -> open_or_chord(g, a.x, a.y, d, n)

----------------------------------------------------------------------------
(* The rules engine driven directly through its public operations *)

NoCall == [op |-> "none", x |-> 0, y |-> 0, w |-> 0, h |-> 0, m |-> 0]
Call(op, x, y) == [op |-> op, x |-> x, y |-> y, w |-> 0, h |-> 0, m |-> 0]
CallCfg(op, w, h, m) == [op |-> op, x |-> 0, y |-> 0, w |-> w, h |-> h, m |-> m]

NoTimer == [start |-> None, excess |-> 0]
NoRnd == [pc |-> "idle"]
NoRules == [state |-> "none"]

OverlayIdle ==
    /\ board = <<>>
    /\ settings = [difficulty |-> <<0, 0, 0>>]
    /\ mines_remaining = 0
    /\ timer = NoTimer

Init ==
    /\ \E c \in ValidConfigs :
          rules \in {new_with(c[1], c[2], c[3]), new(c[1], c[2], c[3])}
    /\ ret = NoRet
    /\ call = NoCall
    /\ panicked = FALSE
    /\ OverlayIdle
    /\ rnd = NoRnd

RulesOpen ==
    /\ ~panicked
    /\ \E c \in Coords : \E d \in Draws(rules, c[1], c[2]) :
          LET o == open(rules, c[1], c[2], d)
          IN /\ rules' = o.g
             /\ ret' = o.ret
             /\ panicked' = o.panic
             /\ call' = Call("open", c[1], c[2])
    /\ UNCHANGED <<board, settings, mines_remaining, timer, rnd>>

RulesClear ==
    /\ ~panicked
    /\ rules' = clear(rules)
    /\ ret' = NoRet
    /\ call' = Call("clear", 0, 0)
    /\ UNCHANGED <<panicked, board, settings, mines_remaining, timer, rnd>>

RulesReset ==
    /\ ~panicked
    /\ \E c \in AnyConfigs :
          /\ rules' = reset(rules, c[1], c[2], c[3])
          /\ call' = CallCfg("reset", c[1], c[2], c[3])
    /\ ret' = NoRet
    /\ UNCHANGED <<panicked, board, settings, mines_remaining, timer, rnd>>

Next == RulesOpen \/ RulesClear \/ RulesReset

Spec == Init /\ [][Next]_vars

----------------------------------------------------------------------------
(* Construction of a rules-engine game from any arguments, then probes *)

InitNew ==
    /\ rules = NoRules
    /\ ret = NoRet
    /\ call = NoCall
    /\ panicked = FALSE
    /\ OverlayIdle
    /\ rnd = NoRnd

\* Game::new_with(w, h, m, default_randomizer)
ConstructNewWith ==
    /\ rules = NoRules
    /\ ~panicked
    /\ \E c \in AnyConfigs :
          /\ call' = CallCfg("new_with", c[1], c[2], c[3])
          /\ panicked' = InvalidConfig(c[1], c[2], c[3])
          /\ rules' = IF InvalidConfig(c[1], c[2], c[3])
                      THEN NoRules ELSE new_with(c[1], c[2], c[3])
    /\ ret' = NoRet
    /\ UNCHANGED <<board, settings, mines_remaining, timer, rnd>>

\* Game::new(w, h, m): new_with(h, w, m, default_randomizer)
ConstructNew ==
    /\ rules = NoRules
    /\ ~panicked
    /\ \E c \in AnyConfigs :
          /\ call' = CallCfg("new", c[1], c[2], c[3])
          /\ panicked' = InvalidConfig(c[2], c[1], c[3])
          /\ rules' = IF InvalidConfig(c[2], c[1], c[3])
                      THEN NoRules ELSE new(c[1], c[2], c[3])
    /\ ret' = NoRet
    /\ UNCHANGED <<board, settings, mines_remaining, timer, rnd>>

ConstructedOpen ==
    /\ rules # NoRules
    /\ RulesOpen

NextNew == ConstructNewWith \/ ConstructNew \/ ConstructedOpen

SpecNew == InitNew /\ [][NextNew]_vars

----------------------------------------------------------------------------
(* One run of default_randomizer, one iteration of its while loop per step *)

\* fault variant of InitRand: spaces does not leave out the first cell
InitRand_nofirst ==
    /\ \E c \in ValidConfigs : \E firstx \in 0..(c[1] - 1) : \E firsty \in 0..(c[2] - 1) :
          rnd = [pc |-> "loop", width |-> c[1], height |-> c[2], num_mines |-> c[3],
                 firstx |-> firstx, firsty |-> firsty,
                 mines |-> GridSet(Grid(c[1], c[2], FALSE), firstx, firsty, TRUE),
                 mines_left |-> c[3],
                 area |-> c[1] * c[2],
                 spaces |-> c[1] * c[2] - c[3]]
    /\ rules = NoRules
    /\ ret = NoRet
    /\ call = NoCall
    /\ panicked = FALSE
    /\ OverlayIdle

InitRand ==
    /\ \E c \in ValidConfigs : \E firstx \in 0..(c[1] - 1) : \E firsty \in 0..(c[2] - 1) :
          rnd = [pc |-> "loop", width |-> c[1], height |-> c[2], num_mines |-> c[3],
                 firstx |-> firstx, firsty |-> firsty,
                 mines |-> GridSet(Grid(c[1], c[2], FALSE), firstx, firsty, TRUE),
                 mines_left |-> c[3],
                 area |-> c[1] * c[2],
                 spaces |-> c[1] * c[2] - c[3] - 1]
    /\ rules = NoRules
    /\ ret = NoRet
    /\ call = NoCall
    /\ panicked = FALSE
    /\ OverlayIdle

\* core.rs:220-235, one iteration: draw r, scan, place
RandDraw ==
    /\ rnd.pc = "loop"
    /\ rnd.mines_left > 0
    /\ \E r \in 0..(rnd.spaces + rnd.mines_left - 1) :
          LET s == ScanPlace(rnd.mines, rnd.width, rnd.area, r, 0, 0)
          IN rnd' = IF s.found
                    THEN [rnd EXCEPT !.mines = s.mines, !.mines_left = @ - 1]
                    ELSE rnd
    /\ UNCHANGED <<rules, ret, call, panicked, board, settings, mines_remaining, timer>>

\* core.rs:236-237
RandReturn ==
    /\ rnd.pc = "loop"
    /\ rnd.mines_left = 0
    /\ rnd' = [rnd EXCEPT !.mines = GridSet(rnd.mines, rnd.firstx, rnd.firsty, FALSE),
                          !.pc = "done"]
    /\ UNCHANGED <<rules, ret, call, panicked, board, settings, mines_remaining, timer>>

NextRand == RandDraw \/ RandReturn

SpecRand == InitRand /\ [][NextRand]_vars

\* the run of default_randomizer as straight-line code: an iteration of the
\* while loop that can be taken is taken
SpecRandFair == SpecRand /\ WF_vars(NextRand)

----------------------------------------------------------------------------
(* The overlay engine driven through Game::action, one intent per step *)

\* the struct Game of game/mod.rs, from its fields
G ==
    [rules |-> rules, timer |-> timer, board |-> board, settings |-> settings,
     mines_remaining |-> mines_remaining, opens |-> 0]

\* the state after an operation that left r; the value it returned, r.ret,
\* is no part of the state
Becomes(r) ==
    /\ rules' = r.g.rules
    /\ timer' = r.g.timer
    /\ board' = r.g.board
    /\ settings' = r.g.settings
    /\ mines_remaining' = r.g.mines_remaining
    /\ panicked' = r.panic

\* the builds that differ on this Flag: only 0 - 1 on mines_remaining does
OverflowChecks(g) == IF g.mines_remaining = 0 THEN {TRUE, FALSE} ELSE {FALSE}

\* the coordinates the intents on g are drawn from: every cell of its board,
\* and one coordinate beyond it in x, in y and in both. Which coordinate
\* beyond the board is taken makes no difference to any operation.
IntentCoords(g) ==
    {c \in GameCoords :
        \/ valid_coord(g, c[1], c[2])
        \/ c \in {<<Game_width(g), 0>>, <<0, Game_height(g)>>,
                   <<Game_width(g), Game_height(g)>>}}

InitGame ==
    /\ \E st \in AllSettings :
          /\ rules = Game_new(st).rules
          /\ timer = Game_new(st).timer
          /\ board = Game_new(st).board
          /\ settings = Game_new(st).settings
          /\ mines_remaining = Game_new(st).mines_remaining
    /\ ret = NoRet
    /\ call = NoCall
    /\ panicked = FALSE
    /\ rnd = NoRnd

ActionOpen ==
    /\ ~panicked
    /\ \E c \in IntentCoords(G) : \E d \in Draws(rules, c[1], c[2]) :
          Becomes(Game_action(G, Intent("Open", c[1], c[2]), d, FALSE, now))
    /\ UNCHANGED <<ret, call, rnd>>

ActionFlag ==
    /\ ~panicked
    /\ \E c \in IntentCoords(G) : \E oc \in OverflowChecks(G) :
          Becomes(Game_action(G, Intent("Flag", c[1], c[2]),
                              NoDraw, oc, now))
    /\ UNCHANGED <<ret, call, rnd>>

ActionChord ==
    /\ ~panicked
    /\ \E c \in IntentCoords(G) :
          Becomes(Game_action(G, Intent("Chord", c[1], c[2]),
                              NoDraw, FALSE, now))
    /\ UNCHANGED <<ret, call, rnd>>

ActionOpenOrChord ==
    /\ ~panicked
    /\ \E c \in IntentCoords(G) : \E d \in Draws(rules, c[1], c[2]) :
          Becomes(Game_action(G, Intent("OpenOrChord", c[1], c[2]), d, FALSE, now))
    /\ UNCHANGED <<ret, call, rnd>>

ActionReset ==
    /\ ~panicked
    /\ Becomes(Game_action(G, Intent("Reset", 0, 0),
                           NoDraw, FALSE, now))
    /\ UNCHANGED <<ret, call, rnd>>

ActionChangeSettings ==
    /\ ~panicked
    /\ \E st \in AllSettings :
          Becomes(Game_action(G, IntentSettings(st),
                              NoDraw, FALSE, now))
    /\ UNCHANGED <<ret, call, rnd>>

ActionQuit ==
    /\ ~panicked
    /\ Becomes(Game_action(G, Intent("Quit", 0, 0),
                           NoDraw, FALSE, now))
    /\ UNCHANGED <<ret, call, rnd>>

\* time passes between two intents: the instant a running timer holds
\* grows one tick older
Tick ==
    /\ ~panicked
    /\ is_running(timer)
    /\ Timer_time(timer, now) < MaxElapsed
    /\ timer' = [timer EXCEPT !.start = Some(timer.start[1] - 1)]
    /\ UNCHANGED <<rules, ret, call, panicked, board, settings, mines_remaining, rnd>>

NextGame ==
    \/ ActionOpen \/ ActionFlag \/ ActionChord \/ ActionOpenOrChord
    \/ ActionReset \/ ActionChangeSettings \/ ActionQuit \/ Tick

SpecGame == InitGame /\ [][NextGame]_vars

\* the overlay engine driven by intents alone, with no time passing between
\* them: for the properties in which the reading of the clock plays no part
NextIntents ==
    \/ ActionOpen \/ ActionFlag \/ ActionChord \/ ActionOpenOrChord
    \/ ActionReset \/ ActionChangeSettings \/ ActionQuit

SpecIntents == InitGame /\ [][NextIntents]_vars

----------------------------------------------------------------------------
(* A Timer driven directly, as tests::test_timer drives it. Here an Instant  *)
(* is the reading of the clock when it was taken, rnd.clock is the reading   *)
(* now, and the driver keeps the elapsed time it read at the last stop       *)
(* (the local time of the test) and the reading at the resume after it.      *)

InitTimer ==
    /\ timer = Timer_new
    /\ rnd = [pc |-> "timer", clock |-> 0, phase |-> "new", time |-> 0, since |-> 0]
    /\ rules = NoRules
    /\ ret = NoRet
    /\ call = NoCall
    /\ panicked = FALSE
    /\ board = <<>>
    /\ settings = [difficulty |-> <<0, 0, 0>>]
    /\ mines_remaining = 0

TimerStart ==
    /\ rnd.pc = "timer"
    /\ timer' = Timer_start(timer, rnd.clock)
    /\ rnd' = [rnd EXCEPT !.phase = "running"]
    /\ call' = Call("start", 0, 0)
    /\ UNCHANGED <<rules, ret, panicked, board, settings, mines_remaining>>

\* timer.stop(); let time = timer.time()
TimerStop ==
    /\ rnd.pc = "timer"
    /\ timer' = Timer_stop(timer, rnd.clock)
    /\ rnd' = [rnd EXCEPT !.phase = "stopped",
                          !.time = Timer_time(Timer_stop(timer, rnd.clock), rnd.clock)]
    /\ call' = Call("stop", 0, 0)
    /\ UNCHANGED <<rules, ret, panicked, board, settings, mines_remaining>>

TimerResume ==
    /\ rnd.pc = "timer"
    /\ timer' = Timer_resume(timer, rnd.clock)
    /\ rnd' = [rnd EXCEPT !.phase = IF rnd.phase = "stopped" THEN "resumed" ELSE "running",
                          !.since = rnd.clock]
    /\ call' = Call("resume", 0, 0)
    /\ UNCHANGED <<rules, ret, panicked, board, settings, mines_remaining>>

TimerReset ==
    /\ rnd.pc = "timer"
    /\ timer' = Timer_reset(timer)
    /\ rnd' = [rnd EXCEPT !.phase = "reset"]
    /\ call' = Call("reset", 0, 0)
    /\ UNCHANGED <<rules, ret, panicked, board, settings, mines_remaining>>

\* std::thread::sleep: the clock advances
TimerSleep ==
    /\ rnd.pc = "timer"
    /\ rnd.clock < MaxTime
    /\ rnd' = [rnd EXCEPT !.clock = @ + 1]
    /\ call' = Call("sleep", 0, 0)
    /\ UNCHANGED <<rules, ret, panicked, board, settings, mines_remaining, timer>>

NextTimer == TimerStart \/ TimerStop \/ TimerResume \/ TimerReset \/ TimerSleep

SpecTimer == InitTimer /\ [][NextTimer]_vars

----------------------------------------------------------------------------
(* ui/tui/mod.rs: the terminal UI with its board cursor, one iteration of   *)
(* the loop of get_action per step: the draw, then the key that was read    *)
(* and what Engine::run does with the intent returned. settings is the      *)
(* game's, which the UI reads through game.settings(); of the game only the *)
(* dimensions of its board take part. A usize that a cast from a negative   *)
(* isize wrapped is held as that negative number, as in Game_flag.          *)

\* Difficulty::Easy, Medium, Hard (game/mod.rs:298-325) at the size of the
\* bounds: two square boards and a board wider than high
Easy == [width |-> MaxH, height |-> MaxH, mines |-> 1]
Medium == [width |-> MaxW, height |-> MaxW, mines |-> MaxMines]
Hard == [width |-> MaxW + 1, height |-> MaxW, mines |-> MaxMines + 1]

\* the match of editor.cursor_index() at ui/tui/mod.rs:421-425
Preset(i) == CASE i = 0 -> Easy [] i = 1 -> Medium [] i = 2 -> Hard

\* the % of Rust on isize: the remainder has the sign of the dividend
rem(a, n) == IF a >= 0 THEN a % n ELSE -((-a) % n)

\* GameCursor::new
GameCursor_new(width, height) ==
    [x |-> width \div 2, y |-> height \div 2, width |-> width, height |-> height]

\* GameCursor::move_
move_(c, x, y) ==
    [c EXCEPT !.x = rem(c.x + x, c.width),
              !.y = rem(c.y + y, c.height)]

\* no editor: the UI is in State::Game
NoEditor == [index |-> 0, difficulty |-> <<>>]

\* the fields of TUI: state (with the editor of State::Settings) and cursor
TUI_new(st) ==
    [pc |-> "tui", state |-> "Game", editor |-> NoEditor,
     cursor |-> GameCursor_new(st.difficulty.width, st.difficulty.height)]

\* the index lines[cursor.y].0[cursor.x] of draw_board (ui/tui/mod.rs:247-253)
\* is out of range
draw_board_panics(t, st) ==
    /\ t.state = "Game"
    /\ ~(/\ 0 <= t.cursor.y /\ t.cursor.y < st.difficulty.height
         /\ 0 <= t.cursor.x /\ t.cursor.x < st.difficulty.width)

\* the arrow keys
Arrows == {<<0, -1>>, <<0, 1>>, <<-1, 0>>, <<1, 0>>}

InitTUI ==
    /\ settings = [difficulty |-> Easy]
    /\ rnd = TUI_new([difficulty |-> Easy])
    /\ call = NoCall
    /\ ret = NoRet
    /\ panicked = FALSE
    /\ rules = NoRules
    /\ board = <<>>
    /\ mines_remaining = 0
    /\ timer = NoTimer

\* the iteration of get_action has drawn the screen and read a key
KeyRead == rnd.pc = "tui" /\ ~panicked /\ ~draw_board_panics(rnd, settings)

\* self.draw(game) panics in draw_board
DrawPanics ==
    /\ rnd.pc = "tui" /\ ~panicked
    /\ draw_board_panics(rnd, settings)
    /\ panicked' = TRUE
    /\ UNCHANGED <<rules, ret, call, board, settings, mines_remaining, timer, rnd>>

\* Up, Down, Left, Right: the board cursor in State::Game, the editor's in
\* State::Settings
KeyArrow ==
    /\ KeyRead
    /\ \E a \in Arrows :
          rnd' = IF rnd.state = "Game"
                 THEN [rnd EXCEPT !.cursor = move_(rnd.cursor, a[1], a[2])]
                 ELSE IF a = <<0, -1>>
                      THEN [rnd EXCEPT !.editor.index = Max(0, @ - 1)]
                      ELSE IF a = <<0, 1>>
                           THEN [rnd EXCEPT !.editor.index = Min(3, @ + 1)]
                           ELSE rnd
    /\ UNCHANGED <<rules, ret, call, panicked, board, settings, mines_remaining, timer>>

\* 'f': Action::Flag(cursor.x, cursor.y)
KeyFlag ==
    /\ KeyRead /\ rnd.state = "Game"
    /\ call' = Call("Flag", rnd.cursor.x, rnd.cursor.y)
    /\ UNCHANGED <<rules, ret, panicked, board, settings, mines_remaining, timer, rnd>>

\* 'g' or ' ': Action::Open(cursor.x, cursor.y)
KeyOpen ==
    /\ KeyRead /\ rnd.state = "Game"
    /\ call' = Call("Open", rnd.cursor.x, rnd.cursor.y)
    /\ UNCHANGED <<rules, ret, panicked, board, settings, mines_remaining, timer, rnd>>

\* 'r': Action::Reset
KeyReset ==
    /\ KeyRead /\ rnd.state = "Game"
    /\ call' = Call("Reset", 0, 0)
    /\ UNCHANGED <<rules, ret, panicked, board, settings, mines_remaining, timer, rnd>>

\* 's': the settings editor opens on the game's settings
KeySettings ==
    /\ KeyRead /\ rnd.state = "Game"
    /\ rnd' = [rnd EXCEPT !.state = "Settings",
                          !.editor = [index |-> 0, difficulty |-> settings.difficulty]]
    /\ UNCHANGED <<rules, ret, call, panicked, board, settings, mines_remaining, timer>>

\* ' ' or Enter in the editor: the difficulty under the editor's cursor is
\* taken; the fourth entry is todo!()
KeySelect ==
    /\ KeyRead /\ rnd.state = "Settings"
    /\ IF rnd.editor.index < 3
       THEN /\ rnd' = [rnd EXCEPT !.editor.difficulty = Preset(rnd.editor.index)]
            /\ UNCHANGED panicked
       ELSE /\ panicked' = TRUE
            /\ UNCHANGED rnd
    /\ UNCHANGED <<rules, ret, call, board, settings, mines_remaining, timer>>

\* 'q' in the editor: back to the game
KeyLeave ==
    /\ KeyRead /\ rnd.state = "Settings"
    /\ rnd' = [rnd EXCEPT !.state = "Game", !.editor = NoEditor]
    /\ UNCHANGED <<rules, ret, call, panicked, board, settings, mines_remaining, timer>>

\* 'w' in the editor: a new cursor when the difficulty differs, and
\* Action::ChangeSettings, on which the game takes the settings
KeyWrite ==
    /\ KeyRead /\ rnd.state = "Settings"
    /\ rnd' = [rnd EXCEPT !.state = "Game", !.editor = NoEditor,
                          !.cursor = IF rnd.editor.difficulty # settings.difficulty
                                     THEN GameCursor_new(rnd.editor.difficulty.width,
                                                         rnd.editor.difficulty.height)
                                     ELSE @]
    /\ settings' = [difficulty |-> rnd.editor.difficulty]
    /\ call' = CallCfg("ChangeSettings", rnd.editor.difficulty.width,
                       rnd.editor.difficulty.height, rnd.editor.difficulty.mines)
    /\ UNCHANGED <<rules, ret, panicked, board, mines_remaining, timer>>

\* Ctrl-C, or 'q' in State::Game: Action::Quit, on which Engine::run ends
KeyQuit ==
    /\ KeyRead
    /\ rnd' = [rnd EXCEPT !.pc = "quit"]
    /\ call' = Call("Quit", 0, 0)
    /\ UNCHANGED <<rules, ret, panicked, board, settings, mines_remaining, timer>>

NextTUI ==
    \/ DrawPanics \/ KeyArrow \/ KeyFlag \/ KeyOpen \/ KeyReset \/ KeySettings
    \/ KeySelect \/ KeyLeave \/ KeyWrite \/ KeyQuit

SpecTUI == InitTUI /\ [][NextTUI]_vars

----------------------------------------------------------------------------
(* Vocabulary of the properties *)

Cells(width, height) == (0..(width - 1)) \X (0..(height - 1))

\* the board of g has been generated (and the generator did not panic)
HasBoard(g) == g.state \in {"Playing", "Won", "Lost"} /\ Len(g.mines) = g.height

IsMine(g, c) == g.mines[c[2] + 1][c[1] + 1]
IsOpened(g, c) == g.opened[c[2] + 1][c[1] + 1]

OpenedCells(g) == {c \in Cells(g.width, g.height) : IsOpened(g, c)}
OpenedMines(g) == {c \in Cells(g.width, g.height) : IsOpened(g, c) /\ IsMine(g, c)}
UnopenedClear(g) == {c \in Cells(g.width, g.height) : ~IsOpened(g, c) /\ ~IsMine(g, c)}

\* grid has height rows of width cells
HasShape(grid, width, height) ==
    /\ Len(grid) = height
    /\ \A j \in 1..height : Len(grid[j]) = width

\* the step is a call of open on an in-bounds cell of the pre-state
OpenInBoundsStep ==
    /\ ~panicked
    /\ call'.op = "open"
    /\ call'.x < rules.width
    /\ call'.y < rules.height

Terminal(s) == s \in {"Won", "Lost"}

----------------------------------------------------------------------------
(* Properties of the generator and of the rules engine *)

\* C1: for every valid configuration and in-bounds safe cell, every grid
\* default_randomizer returns has height rows of width cells, exactly
\* num_mines mines and no mine at the safe cell
GoodGrid(grid, width, height, num_mines, firstx, firsty) ==
    /\ HasShape(grid, width, height)
    /\ CountTrue(grid) = num_mines
    /\ ~grid[firsty + 1][firstx + 1]

C1_GeneratorGrid ==
    rnd.pc = "done" =>
        /\ GoodGrid(rnd.mines, rnd.width, rnd.height, rnd.num_mines, rnd.firstx, rnd.firsty)
        /\ [panic |-> FALSE, mines |-> rnd.mines]
              \in default_randomizer(rnd.width, rnd.height, rnd.num_mines,
                                     rnd.firstx, rnd.firsty)
        /\ \A d \in default_randomizer(rnd.width, rnd.height, rnd.num_mines,
                                       rnd.firstx, rnd.firsty) :
              /\ ~d.panic
              /\ GoodGrid(d.mines, rnd.width, rnd.height, rnd.num_mines,
                          rnd.firstx, rnd.firsty)

C1_Witness ==
    /\ rnd.pc = "done"
    /\ rnd.num_mines = 2
    /\ rnd.width * rnd.height > 3
    /\ CountTrue(rnd.mines) = 2

\* C2: the first in-bounds open of a game in state New never returns Mine
\* and never moves the game to Lost; the probed cell is not a mine
C2_FirstOpenSafe ==
    [][(OpenInBoundsStep /\ rules.state = "New") =>
          /\ ret'.cell # Cell_Mine
          /\ rules'.state # "Lost"
          /\ (~panicked' => ~IsMine(rules', <<call'.x, call'.y>>))]_vars

C2_Witness ==
    /\ call.op = "open"
    /\ ret.ok
    /\ ret.cell.tag = "Clear"
    /\ HasBoard(rules)
    /\ OpenedCells(rules) = {<<call.x, call.y>>}
    /\ rules.num_mines >= 1

\* C3 as claimed: an in-bounds open in state New, on a valid configuration,
\* leaves the game Playing and returns state Playing
C3_FirstOpenPlaying ==
    [][(/\ OpenInBoundsStep
        /\ rules.state = "New"
        /\ ~InvalidConfig(rules.width, rules.height, rules.num_mines)) =>
          /\ rules'.state = "Playing"
          /\ ret'.ok /\ ret'.state = "Playing"]_vars

\* C3 amended: on a valid configuration the first probe never loses; it
\* leaves the game Playing, except that with num_mines = width*height - 1 it
\* opens the only mine-free cell and leaves the game Won
C3_FirstOpenPlayingOrWon ==
    [][(/\ OpenInBoundsStep
        /\ rules.state = "New"
        /\ ~InvalidConfig(rules.width, rules.height, rules.num_mines)) =>
          /\ ret'.ok
          /\ ret'.state = rules'.state
          /\ rules'.state = IF rules.num_mines = rules.width * rules.height - 1
                            THEN "Won" ELSE "Playing"]_vars

C3_Witness ==
    /\ call.op = "open"
    /\ ret.ok
    /\ ret.state = "Won"
    /\ HasBoard(rules)
    /\ OpenedCells(rules) = {<<call.x, call.y>>}
    /\ ~InvalidConfig(rules.width, rules.height, rules.num_mines)

\* C4: once the board is generated with exactly num_mines mines,
\* clear_remaining is the number of unopened mine-free cells; the state is
\* Won exactly when every mine-free cell is opened and no mine is; the open
\* that opens the last mine-free cell is the one that returns Won
C4_ClearRemaining ==
    (HasBoard(rules) /\ CountTrue(rules.mines) = rules.num_mines) =>
        /\ rules.clear_remaining = Cardinality(UnopenedClear(rules))
        /\ (rules.state = "Won") <=> (UnopenedClear(rules) = {} /\ OpenedMines(rules) = {})
        /\ (call.op = "open" /\ ret.ok) =>
              ((ret.state = "Won") <=> (UnopenedClear(rules) = {} /\ OpenedMines(rules) = {}))

C4_Witness ==
    /\ HasBoard(rules)
    /\ rules.state = "Won"
    /\ call.op = "open"
    /\ ret.ok /\ ret.state = "Won"
    /\ rules.clear_remaining = 0
    /\ Cardinality(OpenedCells(rules)) >= 2
    /\ rules.num_mines >= 1

\* C5: in state Playing, open on an unopened mine marks it opened, moves to
\* Lost and returns {Lost, Mine}; the state is Lost exactly when one mine is
\* opened, and never is more than one mine opened
C5_LostInv ==
    HasBoard(rules) =>
        /\ Cardinality(OpenedMines(rules)) <= 1
        /\ (rules.state = "Lost") <=> (Cardinality(OpenedMines(rules)) = 1)

C5_Lost ==
    /\ [](C5_LostInv /\ (rules.state = "Lost" => HasBoard(rules)))
    /\ [][(/\ OpenInBoundsStep
           /\ rules.state = "Playing"
           /\ ~IsOpened(rules, <<call'.x, call'.y>>)
           /\ IsMine(rules, <<call'.x, call'.y>>)) =>
             /\ IsOpened(rules', <<call'.x, call'.y>>)
             /\ rules'.state = "Lost"
             /\ ret' = Ok("Lost", Cell_Mine)]_vars

C5_Witness ==
    /\ call.op = "open"
    /\ ret = Ok("Lost", Cell_Mine)
    /\ rules.state = "Lost"
    /\ OpenedMines(rules) = {<<call.x, call.y>>}

\* C6 as claimed: in Won or Lost every in-bounds open returns GameOver and
\* changes no field; only clear and reset leave a terminal state, to New;
\* the only state changes are New->Playing, Playing->Won, Playing->Lost and
\* any->New by clear/reset
C6_TerminalStep(changes) ==
    /\ (OpenInBoundsStep /\ Terminal(rules.state)) =>
          (ret' = Err("GameOver") /\ rules' = rules)
    /\ (rules'.state # rules.state) =>
          \/ <<rules.state, rules'.state>> \in changes /\ call'.op = "open"
          \/ rules'.state = "New" /\ call'.op \in {"clear", "reset"}
    /\ call'.op \in {"clear", "reset"} => rules'.state = "New"

C6_Transitions ==
    [][C6_TerminalStep({<<"New", "Playing">>, <<"Playing", "Won">>,
                        <<"Playing", "Lost">>})]_vars

\* C6 amended: as claimed, with one more state change of a single open:
\* New->Won, taken exactly when the first probe opens the only mine-free cell
C6_TransitionsWithFirstWin ==
    [][/\ C6_TerminalStep({<<"New", "Playing">>, <<"New", "Won">>,
                           <<"Playing", "Won">>, <<"Playing", "Lost">>})
       /\ (rules.state = "New" /\ rules'.state = "Won") =>
             rules.width * rules.height - rules.num_mines = 1]_vars

C6_Witness ==
    /\ Terminal(rules.state)
    /\ call.op = "open"
    /\ call.x < rules.width /\ call.y < rules.height
    /\ ret = Err("GameOver")

\* C8: open with x >= width or y >= height returns OutOfBounds in every
\* state and changes nothing; it does not generate the board
C8_OutOfBounds ==
    [][(/\ ~panicked
        /\ call'.op = "open"
        /\ (call'.x >= rules.width \/ call'.y >= rules.height)) =>
          /\ ret' = Err("OutOfBounds")
          /\ rules' = rules
          /\ ~panicked']_vars

C8_Witness ==
    /\ rules.state = "New"
    /\ rules.mines = <<>>
    /\ call.op = "open"
    /\ (call.x >= rules.width \/ call.y >= rules.height)
    /\ ret = Err("OutOfBounds")

\* C10 as claimed: open on the same in-bounds cell twice in succession
\* returns AlreadyOpen the second time and changes no state
SameOpenAgain ==
    /\ OpenInBoundsStep
    /\ call.op = "open"
    /\ call'.x = call.x /\ call'.y = call.y

C10_SecondOpen ==
    [][SameOpenAgain => (ret' = Err("AlreadyOpen") /\ rules' = rules)]_vars

\* C10 amended: the second call changes no state; it returns AlreadyOpen
\* when the game is Playing after the first call, and GameOver when the
\* first call ended the game
C10_SecondOpenRejected ==
    [][SameOpenAgain =>
          /\ rules' = rules
          /\ ret' = IF rules.state = "Playing"
                    THEN Err("AlreadyOpen") ELSE Err("GameOver")]_vars

C10_Witness ==
    /\ rules.state = "Playing"
    /\ call.op = "open"
    /\ ret = Err("AlreadyOpen")
    /\ IsOpened(rules, <<call.x, call.y>>)

\* the mines among the up-to-8 cells at Chebyshev distance 1 from c
MinesAround(g, c) ==
    Cardinality({m \in Cells(g.width, g.height) :
        /\ m # c
        /\ m[1] - c[1] \in {-1, 0, 1}
        /\ m[2] - c[2] \in {-1, 0, 1}
        /\ IsMine(g, m)})

\* the content of cell c: Mine, or Clear with the count of mines around it
TrueContent(g, c) == IF IsMine(g, c) THEN Cell_Mine ELSE Cell_Clear(MinesAround(g, c))

\* C11: on in-bounds coordinates get_cell returns Hidden for every cell in
\* New; in Playing, Hidden for an unopened cell and Clear(count) for an opened
\* one; in Won and Lost the true content of every cell, opened or not
C11_GetCell ==
    ~panicked =>
        \A c \in Cells(rules.width, rules.height) :
            /\ ~get_cell_panics(rules, c[1], c[2])
            /\ get_cell(rules, c[1], c[2]) =
                  CASE rules.state = "New" -> Cell_Hidden
                    [] rules.state = "Playing" ->
                          IF IsOpened(rules, c)
                          THEN Cell_Clear(MinesAround(rules, c)) ELSE Cell_Hidden
                    [] OTHER -> TrueContent(rules, c)

C11_Witness ==
    /\ rules.state = "Lost"
    /\ ~panicked
    /\ \E c \in Cells(rules.width, rules.height) : \E e \in Cells(rules.width, rules.height) :
          /\ ~IsOpened(rules, c) /\ get_cell(rules, c[1], c[2]) = Cell_Mine
          /\ ~IsOpened(rules, e) /\ get_cell(rules, e[1], e[2]).tag = "Clear"
          /\ get_cell(rules, e[1], e[2]).n >= 1

ConstructStep == call'.op \in {"new", "new_with"} /\ call.op = "none"

\* C13: constructing a game with width < 1, height < 1, mine_count < 1 or
\* mine_count > width*height - 1 panics and yields no game; construction
\* with a valid configuration succeeds in state New
C13_Construction ==
    [][ConstructStep =>
          IF \/ call'.w < 1 \/ call'.h < 1
             \/ call'.m < 1 \/ call'.m > call'.w * call'.h - 1
          THEN panicked' /\ rules' = NoRules
          ELSE ~panicked' /\ rules'.state = "New" /\ rules'.mines = <<>>]_vars

C13_Witness ==
    /\ panicked
    /\ rules = NoRules
    /\ call.op = "new_with"
    /\ call.w >= 1 /\ call.h >= 1
    /\ call.m = call.w * call.h

\* C14: reset validates the configuration like construction does, so in
\* every reachable state width >= 1, height >= 1 and
\* 1 <= num_mines <= width*height - 1, and the next open can generate
C14_ResetValidates ==
    ~panicked =>
        /\ rules.width >= 1 /\ rules.height >= 1
        /\ rules.num_mines >= 1 /\ rules.num_mines <= rules.width * rules.height - 1
        /\ rules.state = "New" =>
              \A c \in Cells(rules.width, rules.height) :
                  \A d \in Draws(rules, c[1], c[2]) : ~d.panic

\* C15: a game built by new(w, h, m) or new_with(w, h, m, r) from a valid
\* (w, h, m) reports width w, height h and num_mines m, and its open accepts
\* (x, y) exactly for x < w and y < h
C15_Dimensions ==
    [][/\ (ConstructStep /\ ~panicked') =>
             /\ rules'.width = call'.w
             /\ rules'.height = call'.h
             /\ rules'.num_mines = call'.m
       /\ (call.op \in {"new", "new_with"} /\ call'.op = "open") =>
             ((ret' # Err("OutOfBounds")) <=> (call'.x < call.w /\ call'.y < call.h))]_vars

----------------------------------------------------------------------------
(* Properties of the overlay engine. The result of an intent is read from   *)
(* Game::action applied to the game of the state.                           *)

CoordIntents == {"Open", "Flag", "Chord", "OpenOrChord"}

\* the operation that left r on game g returned a rejection and changed nothing
Rejected(r, g) == ~r.panic /\ ~r.ret.ok /\ r.g = g

InBoundsCoords(g) == {c \in GameCoords : valid_coord(g, c[1], c[2])}
OutOfBoundsCoords(g) == {c \in GameCoords : ~valid_coord(g, c[1], c[2])}

BoardCells(g) == {g.board[j][i] : <<i, j>> \in (1..Game_width(g)) \X (1..Game_height(g))}

\* C7: once the coarse state is Won or Lost, every Open, Flag, Chord and
\* OpenOrChord intent on in-bounds coordinates is rejected and leaves the
\* board, the counter, the coarse state and the stopped timer as they are;
\* only Reset and ChangeSettings change the game
C7_GameOverInv ==
    (Terminal(rules.state) /\ ~panicked) =>
        /\ ~is_running(timer)
        /\ \A c \in InBoundsCoords(G) : \A op \in CoordIntents : \A oc \in BOOLEAN :
              Rejected(Game_action(G, Intent(op, c[1], c[2]), NoDraw, oc, now), G)
        /\ Rejected(Game_action(G, Intent("Quit", 0, 0), NoDraw, FALSE, now), G)

C7_GameOverRejects ==
    /\ []C7_GameOverInv
    /\ [][Terminal(rules.state) =>
             \/ UNCHANGED <<rules, board, mines_remaining, timer, settings>>
             \/ /\ rules'.state = "New"
                /\ board' = Grid(settings'.difficulty.width, settings'.difficulty.height,
                                 Hidden)]_vars

C7_Witness ==
    /\ rules.state = "Lost"
    /\ ~panicked
    /\ TrippedMine \in BoardCells(G)
    /\ \E c \in InBoundsCoords(G) :
          /\ board[c[2] + 1][c[1] + 1] = TrippedMine
          /\ Game_action(G, Intent("Open", c[1], c[2]), NoDraw, FALSE, now).ret
                = GErr("Game is over")
          /\ Game_action(G, Intent("Flag", c[1], c[2]), NoDraw, FALSE, now).ret
                = GErr("Cell not hidden")

\* C9: every coordinate-bearing intent with x >= width or y >= height is
\* rejected with 'invalid coordinate' in every coarse state, changes no
\* state and does not abort
C9_OutOfBoundsRejected ==
    ~panicked =>
        \A c \in OutOfBoundsCoords(G) : \A op \in CoordIntents : \A oc \in BOOLEAN :
            /\ Rejected(Game_action(G, Intent(op, c[1], c[2]), NoDraw, oc, now), G)
            /\ Game_action(G, Intent(op, c[1], c[2]), NoDraw, oc, now).ret
                  = GErr("invalid coordinate")

\* the cell of board b at c
At(b, c) == b[c[2] + 1][c[1] + 1]

\* the cells of the board of g at Chebyshev distance 1 from c
Around(g, c) ==
    {m \in Cells(Game_width(g), Game_height(g)) :
        /\ m # c
        /\ m[1] - c[1] \in {-1, 0, 1}
        /\ m[2] - c[2] \in {-1, 0, 1}}

ZeroCells(g) == {c \in Cells(Game_width(g), Game_height(g)) : At(g.board, c) = Open(0)}
OpenCells(g) == {c \in Cells(Game_width(g), Game_height(g)) : At(g.board, c).tag = "Open"}
FlagCells(g) == {c \in Cells(Game_width(g), Game_height(g)) : At(g.board, c) = Flag}

\* the rules engine of g has the dimensions of its board
DimsAgree(g) == g.rules.width = Game_width(g) /\ g.rules.height = Game_height(g)

\* C16: a probe whose target cell is Flag or Open(n) is rejected and changes
\* nothing, the timer included, in New as well as in Playing
C16_ProbeRejectedNoChange ==
    (~panicked /\ DimsAgree(G) /\ rules.state \in {"New", "Playing"}) =>
        \A c \in InBoundsCoords(G) :
            (At(board, c) = Flag \/ At(board, c).tag = "Open") =>
                Rejected(Game_action(G, Intent("Open", c[1], c[2]), NoDraw, FALSE, now), G)

\* the probe of the Hidden cell c of g left r: it opened c as Open(0) and the
\* game is Playing
ProbeOpensZero(g, c, r) ==
    /\ ~r.panic /\ r.ret.ok
    /\ Game_state(r.g) = "Playing"
    /\ At(g.board, c) = Hidden
    /\ At(r.g.board, c) = Open(0)

\* C17 as claimed: after a probe that opens a Clear(0) cell and leaves the
\* game Playing, every neighbour of every Open(0) cell is Open
C17_CascadeClosed ==
    (~panicked /\ DimsAgree(G)) =>
        \A c \in InBoundsCoords(G) : \A d \in Draws(rules, c[1], c[2]) :
            \A r \in {Game_action(G, Intent("Open", c[1], c[2]), d, FALSE, now)} :
                ProbeOpensZero(G, c, r) =>
                    \A z \in ZeroCells(r.g) : \A m \in Around(r.g, z) :
                        At(r.g.board, m).tag = "Open"

\* C17 amended: the cascade does not pass through flagged cells. Every
\* neighbour of every cell the probe opened as Open(0) is Open afterwards
\* unless it was flagged, and a flagged cell stays Flag; every other cell the
\* probe opened is a neighbour of one it opened as Open(0)
CascadeUpToFlags(g, c, r) ==
    /\ \A z \in ZeroCells(r.g) \ ZeroCells(g) : \A m \in Around(g, z) :
          \/ At(r.g.board, m).tag = "Open"
          \/ At(g.board, m) = Flag /\ At(r.g.board, m) = Flag
    /\ FlagCells(r.g) = FlagCells(g)
    /\ r.g.mines_remaining = g.mines_remaining
    /\ OpenCells(g) \subseteq OpenCells(r.g)
    /\ \A m \in OpenCells(r.g) \ OpenCells(g) :
          \/ m = c
          \/ \E z \in ZeroCells(r.g) \ ZeroCells(g) : m \in Around(g, z)

C17_CascadeClosedUpToFlags ==
    ~panicked =>
        \A c \in InBoundsCoords(G) : \A d \in Draws(rules, c[1], c[2]) :
            \A r \in {Game_action(G, Intent("Open", c[1], c[2]), d, FALSE, now)} :
                ProbeOpensZero(G, c, r) => CascadeUpToFlags(G, c, r)

C17_Witness ==
    /\ ~panicked
    /\ rules.state = "Playing"
    /\ \E z \in ZeroCells(G) :
          /\ \E m \in Around(G, z) : At(board, m) = Flag
          /\ \E m \in Around(G, z) : At(board, m) = Open(0)
          /\ \E m \in Around(G, z) : At(board, m).tag = "Open" /\ At(board, m).n > 0

\* the cells the rules engine of g holds as opened
OpenedCount(g) == IF HasBoard(g.rules) THEN Cardinality(OpenedCells(g.rules)) ELSE 0

\* the intent that left r on g called the rules engine's open at most once
\* per cell, and the rules engine never answered AlreadyOpen
OpensOncePerCell(g, r) ==
    /\ r.g.opens <= Game_width(g) * Game_height(g)
    /\ ~(r.panic /\ r.ret = Unreachable("AlreadyOpen"))
    /\ ~r.panic => r.g.opens = OpenedCount(r.g) - OpenedCount(g)
    /\ ~r.ret.ok => r.g.opens <= OpenedCount(r.g) - OpenedCount(g) + 1

\* C18: every probe and chord terminates; the cascade calls the rules
\* engine's open at most once per cell and never on a cell that is already
\* open, so one intent makes at most width*height such calls and the rules
\* engine never answers AlreadyOpen
C18_CascadeTerminates ==
    ~panicked =>
        \A c \in InBoundsCoords(G) : \A d \in Draws(rules, c[1], c[2]) :
            \A op \in {"Open", "Chord", "OpenOrChord"} :
                \A r \in {Game_action(G, Intent(op, c[1], c[2]), d, FALSE, now)} :
                    OpensOncePerCell(G, r)

C18_Witness ==
    /\ ~panicked
    /\ \E c \in InBoundsCoords(G) : \E d \in Draws(rules, c[1], c[2]) :
          /\ ~Game_action(G, Intent("Open", c[1], c[2]), d, FALSE, now).panic
          /\ Game_action(G, Intent("Open", c[1], c[2]), d, FALSE, now).g.opens >= 4
    /\ \E c \in InBoundsCoords(G) :
          /\ ~Game_action(G, Intent("Chord", c[1], c[2]), NoDraw, FALSE, now).panic
          /\ Game_action(G, Intent("Chord", c[1], c[2]), NoDraw, FALSE, now).g.opens >= 2

\* the other state of a cell that Flag toggles
Toggled(cell) == IF cell = Hidden THEN Flag ELSE Hidden

\* a build with overflow checks never holds a wrapped counter
BuildConsistent(g, oc) == oc => ~usize_wrapped(g.mines_remaining)

\* the accepted Flag on cell c of g left r: only the cell and the counter
\* changed
FlagToggles(g, c, r) ==
    /\ At(g.board, c) \in {Hidden, Flag}
    /\ r.g = [g EXCEPT !.board = GridSet(g.board, c[1], c[2], Toggled(At(g.board, c))),
                       !.mines_remaining = IF At(g.board, c) = Hidden THEN @ - 1 ELSE @ + 1]

\* C19: an accepted Flag changes only the target cell (Hidden<->Flag) and
\* the counter (-1 or +1), never the rules engine, the timer or another cell;
\* two consecutive Flags on a cell restore the prior state; a Flag on a cell
\* that is neither Hidden nor Flag is rejected with no change
C19_FlagToggle ==
    ~panicked =>
        \A c \in InBoundsCoords(G) : \A oc \in {b \in BOOLEAN : BuildConsistent(G, b)} :
            \A r \in {Game_action(G, Intent("Flag", c[1], c[2]), NoDraw, oc, now)} :
                /\ ~(At(board, c) \in {Hidden, Flag}) =>
                      (Rejected(r, G) /\ r.ret = GErr("Cell not hidden"))
                /\ (At(board, c) \in {Hidden, Flag} /\ ~r.panic) =>
                      /\ r.ret = GOk
                      /\ FlagToggles(G, c, r)
                      /\ \A r2 \in {Game_action(r.g, Intent("Flag", c[1], c[2]), NoDraw, oc, now)} :
                            ~r2.panic /\ r2.ret = GOk /\ r2.g = G

C19_Witness ==
    /\ ~panicked
    /\ rules.state = "Playing"
    /\ is_running(timer)
    /\ mines_remaining = Game_mines(G) - 1
    /\ \E c \in FlagCells(G) :
          At(Game_action(G, Intent("Flag", c[1], c[2]), NoDraw, FALSE, now).g.board, c) = Hidden
    /\ \E c \in OpenCells(G) :
          Game_action(G, Intent("Flag", c[1], c[2]), NoDraw, FALSE, now).ret
             = GErr("Cell not hidden")

\* C20: flagging more Hidden cells than mine_count is allowed: each such
\* Flag succeeds and the counter is mine_count minus the number of flags,
\* below zero, without error, abort or wrap-around
C20_OverFlag ==
    (~panicked /\ DimsAgree(G) /\ rules.state \in {"New", "Playing"}) =>
        \A c \in InBoundsCoords(G) : \A oc \in {b \in BOOLEAN : BuildConsistent(G, b)} :
            \A r \in {Game_action(G, Intent("Flag", c[1], c[2]), NoDraw, oc, now)} :
                At(board, c) = Hidden =>
                    /\ ~r.panic
                    /\ r.ret = GOk
                    /\ r.g.mines_remaining = Game_mines(G) - Cardinality(FlagCells(r.g))
                    /\ ~usize_wrapped(r.g.mines_remaining)

HiddenCells(g) == {c \in Cells(Game_width(g), Game_height(g)) : At(g.board, c) = Hidden}

\* the Flag cells around c
FlagsAround(g, c) == {m \in Around(g, c) : At(g.board, m) = Flag}

\* the precondition of Chord holds on cell c of g
ChordReady(g, c) ==
    /\ Game_state(g) = "Playing"
    /\ At(g.board, c).tag = "Open"
    /\ At(g.board, c).n > 0
    /\ Cardinality(FlagsAround(g, c)) = At(g.board, c).n

\* the chord on c of g left r with the game Playing: every Hidden neighbour
\* of c was probed, and no Flag and no Open cell was touched
ChordOpened(g, c, r) ==
    /\ r.ret = GOk
    /\ \A m \in Around(g, c) : At(r.g.board, m) # Hidden
    /\ \A m \in Around(g, c) \cap HiddenCells(g) :
          /\ At(r.g.board, m).tag = "Open"
          /\ IsOpened(r.g.rules, m)
    /\ FlagCells(r.g) = FlagCells(g)
    /\ r.g.mines_remaining = g.mines_remaining
    /\ \A m \in OpenCells(g) : At(r.g.board, m) = At(g.board, m)
    /\ r.g.timer = g.timer

\* C21: a Chord on an Open(n) cell, n > 0, in Playing, with n Flag
\* neighbours, probes every Hidden neighbour and touches no Open or Flag
\* one: if the game is Playing afterwards no neighbour is Hidden, the flagged
\* neighbours are still Flag and the cells that were open are unchanged
C21_ChordOpens ==
    ~panicked =>
        \A c \in InBoundsCoords(G) :
            \A r \in {Game_action(G, Intent("Chord", c[1], c[2]), NoDraw, FALSE, now)} :
                ChordReady(G, c) =>
                    /\ ~r.panic
                    /\ Game_state(r.g) = "Playing" => ChordOpened(G, c, r)

\* the same, of the games whose rules engine has the dimensions of the board
ChordOpensDimsAgree ==
    (~panicked /\ DimsAgree(G)) =>
        \A c \in InBoundsCoords(G) :
            \A r \in {Game_action(G, Intent("Chord", c[1], c[2]), NoDraw, FALSE, now)} :
                ChordReady(G, c) =>
                    /\ ~r.panic
                    /\ Game_state(r.g) = "Playing" => ChordOpened(G, c, r)

\* the rejection Chord answers on cell c of g when its precondition fails
ChordRejection(g, c) ==
    CASE At(g.board, c) = Flag -> GErr("Cell is flagged")
      [] At(g.board, c) = Hidden -> GErr("Cell is hidden")
      [] At(g.board, c).tag # "Open" -> GErr("Game is over")
      [] Game_state(g) # "Playing" -> GErr("Game is over")
      [] At(g.board, c).n = 0 -> GErr("0s get auto-chorded.")
      [] OTHER -> GErr("Can't chord this cell. Incorrect number of flags.")

\* C22: a Chord is rejected and changes nothing (board, counter, rules
\* engine, timer) whenever its precondition fails: the target is Hidden,
\* Flag or Open(0), the coarse state is not Playing, or the number of Flag
\* neighbours differs from the number of the cell
C22_ChordRejected ==
    ~panicked =>
        \A c \in InBoundsCoords(G) :
            \A r \in {Game_action(G, Intent("Chord", c[1], c[2]), NoDraw, FALSE, now)} :
                ~ChordReady(G, c) =>
                    /\ Rejected(r, G)
                    /\ r.ret = ChordRejection(G, c)

C22_Witness ==
    /\ ~panicked
    /\ rules.state = "Playing"
    /\ is_running(timer)
    /\ FlagCells(G) # {}
    /\ ZeroCells(G) # {}
    /\ \E c \in OpenCells(G) :
          /\ At(board, c).n = 1
          /\ Cardinality(FlagsAround(G, c)) = 2
          /\ Around(G, c) \cap HiddenCells(G) # {}
          /\ Game_action(G, Intent("Chord", c[1], c[2]), NoDraw, FALSE, now).ret
                = GErr("Can't chord this cell. Incorrect number of flags.")

\* the rules engine of g holds a mine at the cell c of the board
MineAt(g, c) == InGrid(g.rules.mines, c[1], c[2]) /\ IsMine(g.rules, c)

\* the Hidden neighbours of c that are mines
HiddenMinesAround(g, c) == {m \in Around(g, c) \cap HiddenCells(g) : MineAt(g, m)}

TrippedCells(g) ==
    {c \in Cells(Game_width(g), Game_height(g)) : At(g.board, c) = TrippedMine}

\* r ends the game as the direct probe p of the mine m does
EndsAsProbe(r, p, m) ==
    /\ ~p.panic
    /\ Game_state(p.g) = "Lost" /\ Game_state(r.g) = "Lost"
    /\ At(p.g.board, m) = TrippedMine
    /\ r.g.board = p.g.board
    /\ r.g.timer = p.g.timer
    /\ r.g.mines_remaining = p.g.mines_remaining

\* the chord on c of g left r: it returned with the game ended on one of the
\* Hidden mines around c, as the direct probe of that mine ends it
ChordTripped(g, c, r) ==
    /\ ~r.panic
    /\ Game_state(r.g) = "Lost"
    /\ Cardinality(TrippedCells(r.g)) = 1
    /\ TrippedCells(r.g) \subseteq HiddenMinesAround(g, c)
    /\ BoardCells(r.g) \cap {Hidden, Flag} = {}
    /\ ~is_running(r.g.timer)
    /\ \A m \in TrippedCells(r.g) :
          EndsAsProbe(r, Game_action(g, Intent("Open", m[1], m[2]), NoDraw, FALSE, now), m)

\* C23: a Chord whose flag count matches but whose Hidden neighbours hold a
\* mine ends the game as a direct probe of that mine does: the coarse state
\* becomes Lost, that mine shows TrippedMine, reconciliation has run over the
\* whole board (no cell is Hidden or Flag) and the timer is stopped
C23_ChordTrips ==
    ~panicked =>
        \A c \in InBoundsCoords(G) :
            \A r \in {Game_action(G, Intent("Chord", c[1], c[2]), NoDraw, FALSE, now)} :
                (ChordReady(G, c) /\ HiddenMinesAround(G, c) # {}) => ChordTripped(G, c, r)

\* the same, of the games whose rules engine has the dimensions of the board
ChordTripsDimsAgree ==
    (~panicked /\ DimsAgree(G)) =>
        \A c \in InBoundsCoords(G) :
            \A r \in {Game_action(G, Intent("Chord", c[1], c[2]), NoDraw, FALSE, now)} :
                (ChordReady(G, c) /\ HiddenMinesAround(G, c) # {}) => ChordTripped(G, c, r)

\* what reconciliation shows at cell c of g, which showed was before the
\* operation that ended the game
Reconciled(was, g, c) ==
    CASE was = Hidden ->
            IF IsMine(g.rules, c)
            THEN (IF IsOpened(g.rules, c) THEN TrippedMine ELSE Mine)
            ELSE Open(MinesAround(g.rules, c))
      [] was = Flag -> IF IsMine(g.rules, c) THEN Mine ELSE FalseFlag
      [] OTHER -> was

\* the step moves the coarse state to Won or Lost
EndingStep == ~panicked /\ ~Terminal(rules.state) /\ Terminal(rules'.state)

\* the step left the board reconciled with the rules engine
ReconciledStep ==
    /\ ~panicked'
    /\ DimsAgree(G')
    /\ HasShape(board', Game_width(G), Game_height(G))
    /\ \A c \in Cells(Game_width(G), Game_height(G)) :
          At(board', c) = Reconciled(At(board, c), G', c)

\* C24: when the coarse state becomes Won or Lost the board is reconciled
\* with the rules engine: a cell that was Hidden shows Mine if it is a mine
\* and Open(n) with its true count otherwise, a cell that was Flag shows Mine
\* if it is a mine and FalseFlag if not, the detonated cell shows
\* TrippedMine, and a cell that was Open(n) keeps its value
C24_Reconciliation == [][EndingStep => ReconciledStep]_vars

\* the same, of the games whose rules engine has the dimensions of the board
ReconciliationDimsAgree == [][(EndingStep /\ DimsAgree(G)) => ReconciledStep]_vars

\* the cells a game in progress can show
InPlayCells == {Hidden, Flag} \cup {Open(k) : k \in 0..8}

\* C25: in every reachable state of the overlay, while the coarse state is
\* New or Playing every display cell is Hidden, Flag or Open(n), and in New no
\* cell is Open; while it is Won or Lost no display cell is Hidden or Flag
C25_DisplayCells ==
    ~panicked =>
        /\ HasShape(board, Game_width(G), Game_height(G))
        /\ rules.state \in {"New", "Playing"} => BoardCells(G) \subseteq InPlayCells
        /\ rules.state = "New" => BoardCells(G) \subseteq {Hidden, Flag}
        /\ Terminal(rules.state) => BoardCells(G) \cap {Hidden, Flag} = {}

C25_Witness ==
    /\ ~panicked
    /\ rules.state = "Won"
    /\ Cardinality({c \in Cells(Game_width(G), Game_height(G)) : At(board, c) = Mine}) = 2
    /\ Open(2) \in BoardCells(G)
    /\ mines_remaining = 1

\* the intents that start the game over: Reset, and ChangeSettings to a
\* difficulty other than the one of g
Restarts(g) ==
    {Intent("Reset", 0, 0)}
        \cup {IntentSettings(st) : st \in {t \in AllSettings : t.difficulty # g.settings.difficulty}}

\* g shows a fresh game for its settings
FreshGame(g) ==
    /\ g.board = Grid(Game_width(g), Game_height(g), Hidden)
    /\ g.mines_remaining = Game_mines(g)
    /\ ~is_running(g.timer)
    /\ Timer_time(g.timer, now) = 0
    /\ Game_state(g) = "New"

\* the probe of cell c of the fresh game g, served by the draw d, left p: it
\* generated the layout d with Game_mines(g) mines and none at c
ProbeGenerates(g, c, d, p) ==
    /\ ~p.panic
    /\ p.ret = GOk
    /\ d # NoDraw
    /\ HasBoard(p.g.rules)
    /\ p.g.rules.mines = d.mines
    /\ CountTrue(p.g.rules.mines) = Game_mines(g)
    /\ ~MineAt(p.g, c)
    /\ At(p.g.board, c).tag = "Open"

\* the restart a of g left r: a fresh game for the settings now in force
Restarted(g, a, r) ==
    /\ ~r.panic
    /\ r.ret = GOk
    /\ r.g.settings = IF a.op = "ChangeSettings" THEN a.settings ELSE g.settings
    /\ FreshGame(r.g)

\* every probe of the fresh game g generates
NextProbeGenerates(g) ==
    \A c \in InBoundsCoords(g) : \A d \in Draws(g.rules, c[1], c[2]) :
        ProbeGenerates(g, c, d, Game_action(g, Intent("Open", c[1], c[2]), d, FALSE, now))

\* C26: after a Reset, or a ChangeSettings to another difficulty, in any
\* reachable state, the overlay is a fresh game for the current settings:
\* the board is height rows of width Hidden cells, the counter is the mine
\* count, the timer is not running with zero elapsed time, the coarse state
\* is New, and the next probe generates a new layout with the probed cell safe
C26_ResetFresh ==
    ~panicked =>
        \A a \in Restarts(G) :
            \A r \in {Game_action(G, a, NoDraw, FALSE, now)} :
                Restarted(G, a, r) /\ NextProbeGenerates(r.g)

\* the same, the next probe taken only of the games whose rules engine has
\* the dimensions of the board; a restart leaves a fresh game, which the
\* second conjunct covers
ResetFreshDimsAgree ==
    ~panicked =>
        /\ \A a \in Restarts(G) :
              \A r \in {Game_action(G, a, NoDraw, FALSE, now)} :
                  /\ Restarted(G, a, r)
                  /\ IF a.op = "ChangeSettings"
                     THEN DimsAgree(r.g)
                     ELSE DimsAgree(r.g) <=> DimsAgree(G)
        /\ (FreshGame(G) /\ DimsAgree(G)) => NextProbeGenerates(G)

\* the timer of the step's first state, one tick older
Aged(t) == IF is_running(t) THEN [t EXCEPT !.start = Some(t.start[1] - 1)] ELSE t

\* the step is the passing of time
TickStep == timer' = Aged(timer) /\ UNCHANGED <<rules, board, settings, mines_remaining>>

\* what a step does to the timer: the probe that takes the game out of New
\* starts it from zero; while Playing only the passing of time moves it; the
\* operation that ends the game stops it at the time it shows; after the end
\* it is left alone until the game goes back to New
TimerFollowsGame ==
    /\ (rules.state = "New" /\ rules'.state = "Playing" /\ ~panicked') =>
          timer' = Timer_start(timer, now)
    /\ (rules.state = "Playing" /\ rules'.state = "Playing") =>
          (timer' = timer \/ TickStep)
    /\ EndingStep =>
          /\ ~panicked'
          /\ ~is_running(timer')
          /\ Timer_time(timer', now) =
                IF rules.state = "New" THEN 0 ELSE Timer_time(timer, now)
    /\ (Terminal(rules.state) /\ ~panicked) =>
          \/ timer' = timer /\ Terminal(rules'.state)
          \/ rules'.state = "New" /\ timer' = Timer_new /\ board' # board

\* C28: whenever a probe or chord moves the coarse state to Won or Lost the
\* timer is stopped in that operation, and it stays stopped with unchanged
\* elapsed time until a Reset or a ChangeSettings that changes the settings;
\* the time it shows is measured from the first successful probe of the game
C28_TimerStopped == [][~panicked => TimerFollowsGame]_vars

\* the same, of the games whose rules engine has the dimensions of the board
TimerStoppedDimsAgree == [][(~panicked /\ DimsAgree(G)) => TimerFollowsGame]_vars

\* the step is a call of the rules engine's open
RulesOpenStep == ~panicked /\ call'.op = "open"

\* the cell the step's open is called on
Probed == <<call'.x, call'.y>>

\* a game that has had its first probe keeps its mine grid and neighbour
\* counts, and every entry of opened that is true
BoardKept ==
    /\ rules'.mines = rules.mines
    /\ rules'.neighbours = rules.neighbours
    /\ \A c \in Cells(rules.width, rules.height) :
          IsOpened(rules, c) => IsOpened(rules', c)

\* a successful open sets the entry of the probed cell, which was not set,
\* and leaves every other entry as it was (all false when the open generated)
OneEntrySet ==
    /\ HasShape(rules'.opened, rules.width, rules.height)
    /\ rules.state # "New" => ~IsOpened(rules, Probed)
    /\ \A c \in Cells(rules.width, rules.height) :
          IsOpened(rules', c) <=>
              (c = Probed \/ (rules.state # "New" /\ IsOpened(rules, c)))

\* C29: in the rules engine opened is monotone within a game: an entry that
\* is true stays true under every operation until clear() or reset(); each
\* successful open sets exactly the probed cell's entry and changes no
\* other, and the mine grid and the neighbour counts do not change between
\* the first probe and the next clear() or reset()
C29_OpenedMonotone ==
    [][RulesOpenStep =>
          /\ rules.state # "New" => BoardKept
          /\ ret'.ok => OneEntrySet]_vars

C29_Witness ==
    /\ rules.state = "Playing"
    /\ call.op = "open"
    /\ ret.ok
    /\ Cardinality(OpenedCells(rules)) = 3
    /\ IsOpened(rules, <<call.x, call.y>>)

\* the rules engine's opened marks the cell: it has the entry and it is true
MarkedOpened(g, c) == InGrid(g.rules.opened, c[1], c[2]) /\ IsOpened(g.rules, c)

\* the display cell agrees with the rules engine
Consistent(g, c) ==
    /\ At(g.board, c).tag = "Open" <=> MarkedOpened(g, c)
    /\ At(g.board, c).tag = "Open" =>
          /\ At(g.board, c).n = g.rules.neighbours[c[2] + 1][c[1] + 1]
          /\ ~IsMine(g.rules, c)
    /\ At(g.board, c) \in {Hidden, Flag} => ~MarkedOpened(g, c)

\* C30: in every reachable Playing state a display cell is Open(n) exactly
\* when the rules engine's opened marks it, n is the rules engine's
\* neighbour count of the cell, no opened cell is a mine, and every Hidden
\* or Flag cell is unopened in the rules engine
C30_BoardConsistent ==
    (~panicked /\ rules.state = "Playing") =>
        \A c \in Cells(Game_width(G), Game_height(G)) : Consistent(G, c)

C30_Witness ==
    /\ ~panicked
    /\ rules.state = "Playing"
    /\ Cardinality(OpenCells(G)) = 3
    /\ Cardinality(FlagCells(G)) = 1
    /\ Cardinality(HiddenCells(G)) = 2
    /\ Open(2) \in BoardCells(G)

\* what every probe, cascade and chord on g leaves of the counter
ProbesKeepCounter(g) ==
    \A c \in InBoundsCoords(g) : \A op \in {"Open", "Chord", "OpenOrChord"} :
        \A d \in Draws(g.rules, c[1], c[2]) :
            \A r \in {Game_action(g, Intent(op, c[1], c[2]), d, FALSE, now)} :
                r.g.mines_remaining = g.mines_remaining

\* C31: in every reachable state with coarse state New or Playing the
\* remaining-mine counter equals the configured mine count minus the number
\* of cells displayed as Flag; probes, cascades and chords never change it.
\* A wrapped usize is at least 2^64 - MaxArea and equals no such difference.
C31_MineCounter ==
    (~panicked /\ rules.state \in {"New", "Playing"}) =>
        /\ ~usize_wrapped(mines_remaining)
        /\ mines_remaining = Game_mines(G) - Cardinality(FlagCells(G))
        /\ ProbesKeepCounter(G)

\* the same, up to the wrap of the usize: the counter is the mine count minus
\* the number of flags modulo 2^64
MineCounterModulo ==
    (~panicked /\ rules.state \in {"New", "Playing"}) =>
        /\ mines_remaining = Game_mines(G) - Cardinality(FlagCells(G))
        /\ ProbesKeepCounter(G)

\* the cells the rules engine opened between g and r
NewlyOpened(g, r) ==
    IF HasBoard(r.g.rules)
    THEN OpenedCells(r.g.rules) \ (IF HasBoard(g.rules) THEN OpenedCells(g.rules) ELSE {})
    ELSE {}

\* the game at game/mod.rs:135, where the probe of c has shown Open(0) and
\* open_neighbors is about to be called; o is what self.rules.open did
AtCascade(g, c, o) ==
    [open_start_timer(g, now) EXCEPT !.rules = o.g,
                                     !.board = GridSet(g.board, c[1], c[2], Open(0))]

\* the probe of c on g calls open_neighbors
Cascades(g, c, o) ==
    /\ ~Terminal(Game_state(g))
    /\ At(g.board, c) = Hidden
    /\ ~o.panic /\ o.ret.ok
    /\ o.ret.state = "Playing"
    /\ o.ret.cell = Cell_Clear(0)

\* the Open intent on c of g left r: no cell but c is tripped, and every
\* other cell the rules engine opened is no mine
NoDetonation(g, c, r) ==
    /\ TrippedCells(r.g) \subseteq {c}
    /\ \A m \in NewlyOpened(g, r) \ {c} : ~IsMine(r.g.rules, m)

\* C32: a cascade started by an Open intent never detonates a mine: the only
\* cell that can become TrippedMine during the intent is the cell it names,
\* open_neighbors called from a Clear(0) cell never returns "Auto-tripped on
\* mine.", and every cell the cascade opens is a non-mine
C32_CascadeSafe ==
    (~panicked /\ ~Terminal(rules.state)) =>
        \A c \in InBoundsCoords(G) : \A d \in Draws(rules, c[1], c[2]) :
            /\ \A r \in {Game_action(G, Intent("Open", c[1], c[2]), d, FALSE, now)} :
                  NoDetonation(G, c, r)
            /\ \A o \in {open(rules, c[1], c[2], d)} :
                  Cascades(G, c, o) =>
                      /\ open_neighbors(AtCascade(G, c, o), c[1], c[2], d, now).ret
                             # GErr("Auto-tripped on mine.")
                      /\ TrippedCells(open_neighbors(AtCascade(G, c, o),
                                                     c[1], c[2], d, now).g) = {}

C32_Witness ==
    /\ ~panicked
    /\ rules.state = "Playing"
    /\ \E c \in InBoundsCoords(G) :
          /\ Cascades(G, c, open(rules, c[1], c[2], NoDraw))
          /\ \E m \in Around(G, c) : At(board, m) = Hidden
          /\ open_neighbors(AtCascade(G, c, open(rules, c[1], c[2], NoDraw)),
                            c[1], c[2], NoDraw, now).ret = GOk
          /\ Cardinality(NewlyOpened(G, Game_action(G, Intent("Open", c[1], c[2]),
                                                    NoDraw, FALSE, now))) >= 3
          /\ \E m \in Cells(rules.width, rules.height) : IsMine(rules, m)

\* every intent that can be sent to g
AllIntents(g) ==
    {Intent(op, c[1], c[2]) : op \in CoordIntents, c \in InBoundsCoords(g) \cup OutOfBoundsCoords(g)}
        \cup {Intent("Reset", 0, 0), Intent("Quit", 0, 0)}
        \cup {IntentSettings(st) : st \in AllSettings}

\* the outcomes of the intent a on g: one for each value the randomizer can
\* return, should a generate the board
Outcomes(g, a) ==
    {Game_action(g, a, d, FALSE, now) :
        d \in IF a.op \in {"Open", "OpenOrChord"} THEN Draws(g.rules, a.x, a.y) ELSE {NoDraw}}

\* r left of g what a rejection must leave
NoOp(g, r) ==
    /\ r.g.board = g.board
    /\ r.g.mines_remaining = g.mines_remaining
    /\ r.g.rules = g.rules

\* C33: rejections are no-ops: whenever Game::action returns Err, for any
\* intent in any reachable state, the display board, the remaining-mine
\* counter, the coarse state and the rules engine are as before the call;
\* conversely every intent that changes the coarse state returns Ok
C33_RejectionsNoOps ==
    (~panicked /\ DimsAgree(G)) =>
        \A a \in AllIntents(G) : \A r \in Outcomes(G, a) :
            ~r.panic =>
                /\ ~r.ret.ok => NoOp(G, r)
                /\ Game_state(r.g) # Game_state(G) => r.ret.ok

\* what holds instead: the one Err that follows a change is that of a chord
\* which tripped a mine
RejectionsNoOpsButAutoTrip ==
    ~panicked =>
        \A a \in AllIntents(G) : \A r \in Outcomes(G, a) :
            (~r.panic /\ r.ret # GErr("Auto-tripped on mine.")) =>
                /\ ~r.ret.ok => NoOp(G, r)
                /\ Game_state(r.g) # Game_state(G) => r.ret.ok

\* C34: in every reachable state the timer is running exactly when the
\* coarse state is Playing: it is not running, and shows zero, while the
\* state is New, and it is not running while the state is Won or Lost
C34_TimerRunsWhenPlaying ==
    (~panicked /\ DimsAgree(G)) =>
        /\ is_running(timer) <=> rules.state = "Playing"
        /\ rules.state = "New" => Timer_time(timer, now) = 0

\* what holds instead: the timer runs while Playing and is stopped after the
\* end; in New it can be running, a rejected probe of a flagged cell having
\* started it
TimerRunsWhilePlaying ==
    ~panicked =>
        /\ rules.state = "Playing" => is_running(timer)
        /\ Terminal(rules.state) => ~is_running(timer)

\* C35: in every reachable state: if the coarse state is Won, no cell is
\* FalseFlag or TrippedMine and every mine is displayed as Mine; if it is
\* Lost, exactly one cell is TrippedMine and it is a mine; in New and Playing
\* no cell is TrippedMine
C35_EndDisplay ==
    ~panicked =>
        /\ rules.state = "Won" =>
              /\ BoardCells(G) \cap {FalseFlag, TrippedMine} = {}
              /\ \A c \in Cells(rules.width, rules.height) :
                    IsMine(rules, c) =>
                        (valid_coord(G, c[1], c[2]) /\ At(board, c) = Mine)
        /\ rules.state = "Lost" =>
              /\ Cardinality(TrippedCells(G)) = 1
              /\ \A c \in TrippedCells(G) : MineAt(G, c)
        /\ rules.state \in {"New", "Playing"} => TrippedCells(G) = {}

C35_Witness ==
    /\ ~panicked
    /\ rules.state = "Lost"
    /\ Cardinality(TrippedCells(G)) = 1
    /\ FalseFlag \in BoardCells(G)
    /\ Mine \in BoardCells(G)
    /\ Open(2) \in BoardCells(G)

\* the errors of the rules engine that game/mod.rs:126 holds unreachable
OpenErrs == {"OutOfBounds", "AlreadyOpen", "GameOver"}

\* no probe or chord on a cell of g's board runs into one of the overlay's
\* unreachable assertions
NoAssertionFires(g) ==
    /\ \A op \in {"Open", "Chord", "OpenOrChord"} : \A c \in InBoundsCoords(g) :
          \A r \in Outcomes(g, Intent(op, c[1], c[2])) :
              ~(r.panic /\ r.ret \in {Unreachable(e) : e \in OpenErrs})
    /\ ~Terminal(Game_state(g)) => BoardCells(g) \subseteq InPlayCells
    /\ \A c \in InBoundsCoords(g) : \A d \in Draws(g.rules, c[1], c[2]) :
          \A o \in {open(g.rules, c[1], c[2], d)} :
              (~o.panic /\ o.ret.ok /\ o.ret.state # "Playing") => Terminal(o.g.state)

\* C36: the overlay's unreachable assertions never fire, for any sequence of
\* intents on any valid settings, square or not: the rules engine's open on
\* a cell displayed Hidden never returns OutOfBounds, AlreadyOpen or
\* GameOver; Game::open never meets a Mine, FalseFlag or TrippedMine cell
\* while the state is non-terminal; query_board is called only in Won or Lost
C36_NoAssertionFires == ~panicked => NoAssertionFires(G)

\* the same, of the games whose rules engine has the dimensions of the board
NoAssertionFiresDimsAgree == (~panicked /\ DimsAgree(G)) => NoAssertionFires(G)

\* C37: a ChangeSettings whose difficulty is the current one leaves the game
\* in progress untouched: board, remaining-mine counter, coarse state, rules
\* engine and timer are unchanged and the intent returns Ok; only a
\* differing difficulty resets the game
C37_SameSettings ==
    ~panicked =>
        \A st \in AllSettings :
            \A r \in {Game_action(G, IntentSettings(st), NoDraw, FALSE, now)} :
                /\ ~r.panic /\ r.ret = GOk
                /\ r.g.settings = st
                /\ st.difficulty = settings.difficulty => r.g = G
                /\ st.difficulty # settings.difficulty =>
                      /\ FreshGame(r.g)
                      /\ DimsAgree(r.g)
                      /\ r.g.rules.num_mines = st.difficulty.mines

C37_Witness ==
    /\ ~panicked
    /\ rules.state = "Playing"
    /\ is_running(timer) /\ Timer_time(timer, now) = 1
    /\ Cardinality(FlagCells(G)) = 1
    /\ Cardinality(OpenCells(G)) = 2
    /\ Game_action(G, IntentSettings(settings), NoDraw, FALSE, now).g = G
    /\ \E st \in AllSettings :
          Game_state(Game_action(G, IntentSettings(st), NoDraw, FALSE, now).g) = "New"

\* the cells the loop of default_randomizer can still mine: those not mined,
\* the first cell being marked as mined while the loop runs
Candidates == {c \in Cells(rnd.width, rnd.height) : ~rnd.mines[c[2] + 1][c[1] + 1]}

\* what the draw r of the next iteration does
Drawn(r) == ScanPlace(rnd.mines, rnd.width, rnd.area, r, 0, 0)

\* in the while loop: the iterations made are the mines placed, the draw
\* ranges over as many indices as there are candidates, every draw finds
\* its candidate and mines that cell alone, and two draws find two cells
LoopDraws ==
    rnd.pc = "loop" =>
        /\ rnd.mines[rnd.firsty + 1][rnd.firstx + 1]
        /\ CountTrue(rnd.mines) - 1 = rnd.num_mines - rnd.mines_left
        /\ rnd.spaces + rnd.mines_left = Cardinality(Candidates)
        /\ rnd.mines_left > 0 =>
              /\ \A r \in 0..(rnd.spaces + rnd.mines_left - 1) :
                    /\ Drawn(r).found
                    /\ \E c \in Candidates :
                          Drawn(r).mines = GridSet(rnd.mines, c[1], c[2], TRUE)
              /\ \A c \in Candidates : \E r \in 0..(rnd.spaces + rnd.mines_left - 1) :
                    Drawn(r).mines = GridSet(rnd.mines, c[1], c[2], TRUE)

\* the mines placed so far, the mark on the first cell apart
Placed == {c \in Cells(rnd.width, rnd.height) :
              rnd.mines[c[2] + 1][c[1] + 1] /\ c # <<rnd.firstx, rnd.firsty>>}

\* the layouts with num_mines mines and none at the first cell
Layouts ==
    {g \in [1..rnd.height -> [1..rnd.width -> BOOLEAN]] :
        GoodGrid(g, rnd.width, rnd.height, rnd.num_mines, rnd.firstx, rnd.firsty)}

\* every layout is a value of default_randomizer, and the loop can end with
\* every layout that holds the mines placed so far
AllLayouts ==
    /\ {d.mines : d \in default_randomizer(rnd.width, rnd.height, rnd.num_mines,
                                           rnd.firstx, rnd.firsty)} = Layouts
    /\ rnd.pc = "loop" =>
          {GridSet(p, rnd.firstx, rnd.firsty, FALSE) :
              p \in PlaceAll(rnd.mines, rnd.mines_left, rnd.spaces, rnd.width, rnd.area)}
            = {g \in Layouts : \A c \in Placed : g[c[2] + 1][c[1] + 1]}

\* C38: default_randomizer terminates for every valid configuration and
\* in-bounds first cell: each iteration of its outer loop draws an index
\* within the set of cells that are neither mined nor the first cell,
\* always finds that cell and places exactly one new mine, so the loop ends
\* after exactly num_mines iterations; every layout with exactly num_mines
\* mines and none at the first cell can be produced
C38_RandomizerTerminates ==
    /\ [](LoopDraws /\ AllLayouts)
    /\ [][rnd.pc = "loop" /\ rnd'.pc = "loop" =>
             /\ rnd'.mines_left = rnd.mines_left - 1
             /\ CountTrue(rnd'.mines) = CountTrue(rnd.mines) + 1]_vars
    /\ <>(rnd.pc = "done" /\ rnd.mines_left = 0)

C38_Witness ==
    /\ rnd.pc = "done"
    /\ rnd.area = 6
    /\ rnd.num_mines = 2
    /\ rnd.firstx = 1 /\ rnd.firsty = 0
    /\ rnd.mines[1][1] /\ rnd.mines[2][3]

----------------------------------------------------------------------------
(* Properties of the terminal UI *)

\* the board cursor is on a cell of the game's board
CursorInside ==
    /\ 0 <= rnd.cursor.x /\ rnd.cursor.x < settings.difficulty.width
    /\ 0 <= rnd.cursor.y /\ rnd.cursor.y < settings.difficulty.height

\* C39: the board cursor stays inside the board after any sequence of
\* arrow-key moves: 0 <= cursor.x < width and 0 <= cursor.y < height always
\* hold (moving left from column 0 or up from row 0 wraps or stays), so the
\* coordinates sent with Open and Flag intents and used to highlight the
\* cursor cell are always valid
C39_CursorInBoard == rnd.pc = "tui" => (CursorInside /\ ~panicked)

\* what holds instead: the cursor leaves the board only to the left of
\* column 0 or above row 0, the next draw then panics, and so no intent
\* carries a coordinate outside the board
CursorInsideOrAboutToPanic ==
    rnd.pc = "tui" =>
        /\ rnd.cursor.width = settings.difficulty.width
        /\ rnd.cursor.height = settings.difficulty.height
        /\ rnd.cursor.x < rnd.cursor.width /\ rnd.cursor.y < rnd.cursor.height
        /\ rnd.cursor.x >= -1 /\ rnd.cursor.y >= -1
        /\ KeyRead => CursorInside

----------------------------------------------------------------------------
(* Properties of the Timer *)

\* C27: after stop() the elapsed time stays what it was at the stop however
\* much time passes, and is_running is false; after a later resume() the
\* elapsed time is the value held at the stop plus the time passed since the
\* resume; reset() leaves the timer not running with zero elapsed time
C27_TimerContract ==
    rnd.pc = "timer" =>
        /\ rnd.phase = "stopped" =>
              /\ ~is_running(timer)
              /\ Timer_time(timer, rnd.clock) = rnd.time
        /\ rnd.phase = "resumed" =>
              /\ is_running(timer)
              /\ Timer_time(timer, rnd.clock) = rnd.time + (rnd.clock - rnd.since)
        /\ rnd.phase = "reset" =>
              /\ ~is_running(timer)
              /\ Timer_time(timer, rnd.clock) = 0

C27_Witness ==
    /\ rnd.pc = "timer"
    /\ rnd.phase = "resumed"
    /\ rnd.time = 2
    /\ rnd.clock - rnd.since = 1
    /\ rnd.clock = MaxTime
    /\ Timer_time(timer, rnd.clock) = 3

====
